---- MODULE Spec2Model ----
(***************************************************************************)
(* coreos-assembler: the build metadata store.                             *)
(*                                                                         *)
(*   src/src/cosalib/cmdlib.py   merge_dicts, merge_lists, write_json,     *)
(*                               load_json, get_lock_path                  *)
(*   src/src/cosalib/meta.py     merge_meta, GenericMeta                   *)
(*                                                                         *)
(* JSON values are tagged records [t |-> tag, v |-> payload]; a JSON       *)
(* object (a Python dict) is a function from key strings to tagged values. *)
(***************************************************************************)
EXTENDS Integers, Sequences, FiniteSets, TLC

(***************************************************************************)
(* JSON values                                                             *)
(***************************************************************************)
S(s) == [t |-> "str", v |-> s]
N(n) == [t |-> "num", v |-> n]
B(b) == [t |-> "bool", v |-> b]
D(f) == [t |-> "dict", v |-> f]
L(q) == [t |-> "list", v |-> q]
\* Python None / JSON null; also what dict.get(k) returns for a missing key
Null == [t |-> "null", v |-> ""]

\* the empty dict {}
Empty == [k \in {} |-> Null]

\* Python truth value of a JSON value (`if x.get(i, False)`)
Truthy(val) ==
    CASE val.t = "str"  -> val.v # ""
      [] val.t = "num"  -> val.v # 0
      [] val.t = "bool" -> val.v
      [] val.t = "dict" -> DOMAIN val.v # {}
      [] val.t = "list" -> Len(val.v) > 0
      [] OTHER          -> FALSE

\* dict.get(k): the value, or None when the key is missing
Get(d, k) == IF k \in DOMAIN d THEN d[k] ELSE Null

\* d[k] = val on a dict (adds the key when it is missing)
Put(d, k, val) == (k :> val) @@ d

(***************************************************************************)
(* Keys of meta.json                                                       *)
(***************************************************************************)
COSA_DELAYED_MERGE == "coreos-assembler.delayed-meta-merge"
COSA_VER_STAMP == "coreos-assembler.meta-stamp"
cosa_git == "coreos-assembler.container-config-git"
IdentityFields ==
    {"ostree-commit", "ostree-content-checksum",
     "coreos-assembler.image-config-checksum"}

(***************************************************************************)
(* cmdlib.merge_lists / cmdlib.merge_dicts                                 *)
(***************************************************************************)
InSeq(e, q) == \E i \in 1..Len(q) : q[i] = e

\* merge_lists that appends all of y[k]
merge_lists_concat(xs, ys) == xs \o ys

\* x[k].extend([i for i in y[k] if i not in x[k]]): the filter is evaluated
\* against x[k] as it was before the extension
merge_lists(xs, ys) == xs \o SelectSeq(ys, LAMBDA e : ~InSeq(e, xs))

\* merge_dicts that does not descend: a key on both sides takes x's value
merge_dicts_shallow(x, y) ==
    [k \in DOMAIN x \cup DOMAIN y |-> IF k \in DOMAIN x THEN x[k] ELSE y[k]]

\* merge_dicts that walks x only: a key that only y has is not taken over
merge_dicts_xonly(x, y) ==
    [k \in DOMAIN x |->
        IF k \in DOMAIN y /\ x[k].t = "list" /\ y[k].t = "list"
        THEN L(merge_lists(x[k].v, y[k].v))
        ELSE x[k]]

RECURSIVE merge_dicts(_, _)
merge_dicts(x, y) ==
    [k \in DOMAIN x \cup DOMAIN y |->
        IF k \notin DOMAIN y THEN x[k]
        ELSE IF k \notin DOMAIN x THEN y[k]
        ELSE IF x[k].t = "dict" /\ y[k].t = "dict"
             THEN D(merge_dicts(x[k].v, y[k].v))
        ELSE IF x[k].t = "list" /\ y[k].t = "list"
             THEN L(merge_lists(x[k].v, y[k].v))
        ELSE x[k]]

(***************************************************************************)
(* meta.merge_meta                                                         *)
(***************************************************************************)
Ok(doc) == [err |-> "none", doc |-> doc]
Raise(e) == [err |-> e, doc |-> Empty]

\* x.get(COSA_VER_STAMP, 0)
StampOf(d) == IF COSA_VER_STAMP \in DOMAIN d THEN d[COSA_VER_STAMP].v ELSE 0

\* x.get(cosa_git, {}).get("commit")
CosaCommit(d) ==
    IF cosa_git \in DOMAIN d THEN Get(d[cosa_git].v, "commit") ELSE Null

\* .get("commit") exists only on a dict
CosaGitIsDict(d) == cosa_git \in DOMAIN d => d[cosa_git].t = "dict"

\* merge_select with `>=` for `>`: equal stamps are merged, not taken from y
merge_select_ge(x, y) ==
    IF StampOf(x) >= StampOf(y) THEN merge_dicts(x, y) ELSE merge_dicts(y, x)

\* merge_select with the arguments of merge_dicts exchanged
merge_select_swapped(x, y) ==
    IF StampOf(x) = StampOf(y) THEN y
    ELSE IF StampOf(x) > StampOf(y) THEN merge_dicts(y, x)
    ELSE merge_dicts(x, y)

\* the stamp comparison of merge_meta, before re-stamping
merge_select(x, y) ==
    IF StampOf(x) = StampOf(y) THEN y
    ELSE IF StampOf(x) > StampOf(y) THEN merge_dicts(x, y)
    ELSE merge_dicts(y, x)

\* merge_meta whose guards fire only when y defines the field as well
merge_meta_twosided(x, y, now) ==
    IF \E i \in IdentityFields :
          Truthy(Get(x, i)) /\ Get(y, i) # Null /\ Get(x, i) # Get(y, i)
    THEN Raise("COSAMergeError")
    ELSE IF ~CosaGitIsDict(x) \/ ~CosaGitIsDict(y)
    THEN Raise("AttributeError")
    ELSE IF Truthy(CosaCommit(x)) /\ CosaCommit(y) # Null /\ CosaCommit(x) # CosaCommit(y)
    THEN Raise("COSAMergeError")
    ELSE Ok(Put(merge_select(x, y), COSA_VER_STAMP, N(now)))

\* merge_meta(x, y) with time.time_ns() = now
merge_meta(x, y, now) ==
    IF \E i \in IdentityFields : Truthy(Get(x, i)) /\ Get(x, i) # Get(y, i)
    THEN Raise("COSAMergeError")
    ELSE IF ~CosaGitIsDict(x) \/ ~CosaGitIsDict(y)
    THEN Raise("AttributeError")
    ELSE IF Truthy(CosaCommit(x)) /\ CosaCommit(x) # CosaCommit(y)
    THEN Raise("COSAMergeError")
    ELSE Ok(Put(merge_select(x, y), COSA_VER_STAMP, N(now)))

(***************************************************************************)
(* Bounds of the model                                                     *)
(***************************************************************************)
\* the largest value a process clock (time.time_ns()) takes
MaxClock == 3
\* how far apart the clocks of two processes start
MaxSkew == 1
\* the largest stamp of the documents merge_meta is applied to on its own
MaxStamp == 2

\* os.stat(path).st_mtime: seconds, far below every time.time_ns() reading
\* and never 0; the clocks below start at or above it
MTime == 1

(***************************************************************************)
(* The processes and the files of one build directory                      *)
(***************************************************************************)
Procs == {"A", "B"}
\* the artifact each job registers under images.<platform>
Artifact(p) == IF p = "A" THEN "qemu" ELSE "aws"

\* GenericMeta.path, relative to the build directory
MetaPath == "meta.json"
\* os.path.join(dn, f"meta.{artifact_name}.json")
SidePath(name) == "meta." \o name \o ".json"
\* a lock path that does not depend on the file
get_lock_path_global(path) == ".lock"
\* get_lock_path: .<basename>.lock in the directory of the file
get_lock_path(path) == "." \o path \o ".lock"

VARIABLES
    files,      \* path -> [data, pending]: pending names the writer whose
                \* file object still buffers the data (the file is truncated)
    lock,       \* lock path -> the process that holds it
    clock,      \* per process: the last reading of time.time_ns()
    validator,  \* per process: GenericMeta._validator is configured
    pc,         \* per process: position in its current call
    mem,        \* per process: the GenericMeta dict
    err,        \* per process: the exception that ended its last call
    call,       \* per process: the call in progress, or the one that failed
    wpath,      \* write(): path
    wmerge,     \* write(): merge_func is callable
    wfinal,     \* write(): final
    disk_data,  \* write_json(): disk_data
    data,       \* write_json(): data, the content given to the temporary file
    committed,  \* history: the images.<artifact> sub-keys that a write() which
                \* returned has merged into meta.json
    px, py, pnow, pres,  \* merge_meta applied on its own: x, y, now, result
    pdisk       \* and the file write_json was asked to replace

cvars == <<files, lock, clock, validator, pc, mem, err, call, wpath, wmerge,
           wfinal, disk_data, data, committed>>
\* the Build Index (cosalib.builds.Builds), one object per process
VARIABLES
    bdir,       \* the builds/ directory exists
    bpc,        \* per process: position in its current Builds call
    bdata,      \* per process: Builds._data
    berr,       \* per process: the exception that ended its last call
    bcall,      \* per process: the call that runs flush()
    bret        \* per process: the value its last call returned

bvars == <<bdir, bpc, bdata, berr, bcall, bret>>
mvars == <<clock, validator, pc, mem, err, call, wpath, wmerge, wfinal,
           disk_data, data, committed>>
purevars == <<px, py, pnow, pres, pdisk>>
\* GenericMeta.get and GenericMeta.set called by job A
VARIABLES
    gret,       \* what the last get() or set() returned or raised
    slast       \* history: the last set(): its path, its value, and the
                \* document before and after it

svars == <<gret, slast>>
\* processes that stop, the lifetime of a lock, and the platform build token
VARIABLES
    crashed,    \* the processes that have stopped for good
    expired,    \* the lock paths whose lifetime is over
    token,      \* the file .<platform>.building exists in the build directory
    tpc,        \* per process: position of its _Build instance
    ttok        \* per process: the instance has the attribute _token_file
kvars == <<crashed, expired, token, tpc, ttok>>
ovars == <<bvars, svars, kvars>>
pvars == <<purevars, ovars>>
vars == <<cvars, pvars>>

\* the schema of the scenario: `buildid` is required, and is a string
SchemaValid(doc) == "buildid" \in DOMAIN doc /\ doc["buildid"].t = "str"

\* validate() that never raises
validate_off(v, doc) == TRUE

\* GenericMeta.validate: no validator, or the document satisfies the schema
validate(v, doc) == ~v \/ SchemaValid(doc)

\* a lock that is granted while another process holds it
LockFree_always(lp) == TRUE

\* Lock(lock_path).lock() returns only when nobody holds the lock
LockFree(lp) == lp \notin DOMAIN lock

\* open(path) + json.load(f): a missing file, an empty or truncated file
load(path) ==
    IF path \notin DOMAIN files THEN Raise("FileNotFoundError")
    ELSE IF files[path].pending # "none" THEN Raise("ValueError")
    ELSE Ok(files[path].data)

\* a re-read that lets FileNotFoundError through
load_or_empty_raise(path) == load(path)

\* write_json with a merge function: disk_data = load_json(path), or {} when
\* there is no file
load_or_empty(path) ==
    IF load(path).err = "FileNotFoundError" THEN Ok(Empty) ELSE load(path)

\* the meta.json the composer left in the build directory
BaseDoc ==
    ("buildid" :> S("41.20240101.0")) @@ ("name" :> S("fedora-coreos")) @@
    ("images" :> D(Empty))
\* the same, stamped by a job that wrote it earlier on some machine
InitDocs == {BaseDoc, Put(BaseDoc, COSA_VER_STAMP, N(MTime + 1))}

\* no Builds object
NoIndex == [ver |-> <<>>, builds |-> <<>>, timestamp |-> "none"]
BuildsIdle ==
    /\ bdir = TRUE
    /\ bpc = [p \in Procs |-> "closed"]
    /\ bdata = [p \in Procs |-> NoIndex]
    /\ berr = [p \in Procs |-> "none"]
    /\ bcall = [p \in Procs |-> "none"]
    /\ bret = [p \in Procs |-> "none"]

NoCall == [err |-> "none", v |-> Null]
NoSet == [path |-> <<>>, val |-> Null, before |-> Empty, after |-> Empty]
GetSetIdle == gret = NoCall /\ slast = NoSet

\* nobody has stopped, no lifetime is over, no _Build instance exists
KIdle ==
    /\ crashed = {}
    /\ expired = {}
    /\ token = FALSE
    /\ tpc = [p \in Procs |-> "none"]
    /\ ttok = [p \in Procs |-> FALSE]

OthersIdle == BuildsIdle /\ GetSetIdle /\ KIdle

PureIdle ==
    /\ px = Empty /\ py = Empty /\ pnow = 0 /\ pres = Raise("pending") /\ pdisk = Empty
    /\ OthersIdle

\* one build directory holding `doc` as meta.json, and the jobs not yet started;
\* the clocks of the machines the jobs run on are up to MaxSkew apart
JobsIdle(skews, schema) ==
    /\ lock = [k \in {} |-> "none"]
    /\ \E k \in skews :
          clock = [p \in Procs |-> IF p = "A" THEN MTime ELSE MTime + k]
    /\ validator = schema
    /\ pc = [p \in Procs |-> "start"]
    /\ mem = [p \in Procs |-> Empty]
    /\ err = [p \in Procs |-> "none"]
    /\ call = [p \in Procs |-> "none"]
    /\ wpath = [p \in Procs |-> MetaPath]
    /\ wmerge = [p \in Procs |-> FALSE]
    /\ wfinal = [p \in Procs |-> FALSE]
    /\ disk_data = [p \in Procs |-> Empty]
    /\ data = [p \in Procs |-> Empty]
    /\ committed = {}

InitJobs(doc, skews, schema) ==
    /\ files = (MetaPath :> [data |-> doc, pending |-> "none"])
    /\ JobsIdle(skews, schema)

\* every job is given the schema
InitWith(doc, skews) == InitJobs(doc, skews, [p \in Procs |-> TRUE])

Init == (\E d \in InitDocs : InitWith(d, 0..MaxSkew)) /\ PureIdle

(***************************************************************************)
(* GenericMeta.__init__ and GenericMeta.read                               *)
(***************************************************************************)
\* a call ends with an exception: the process is left with `m` as its dict
Fail(p, c, e, m) ==
    /\ pc' = [pc EXCEPT ![p] = "failed"]
    /\ err' = [err EXCEPT ![p] = e]
    /\ call' = [call EXCEPT ![p] = c]
    /\ mem' = [mem EXCEPT ![p] = m]

\* the locals of write() and write_json() are gone when the call is over
ResetLocals(p) ==
    /\ wpath' = [wpath EXCEPT ![p] = MetaPath]
    /\ wmerge' = [wmerge EXCEPT ![p] = FALSE]
    /\ wfinal' = [wfinal EXCEPT ![p] = FALSE]
    /\ disk_data' = [disk_data EXCEPT ![p] = Empty]
    /\ data' = [data EXCEPT ![p] = Empty]

\* if self.get(COSA_VER_STAMP) is None: self.set(COSA_VER_STAMP, st_mtime)
WithMTime(doc) ==
    IF Get(doc, COSA_VER_STAMP) = Null THEN Put(doc, COSA_VER_STAMP, N(MTime))
    ELSE doc

\* read(): clear(), update(load_json(path)) under the lock, validate();
\* `stamp` tells __init__ (which adds the stamp afterwards) from read()
ReadInto(p, c, stamp) ==
    /\ LockFree(get_lock_path(MetaPath))
    /\ LET r == load(MetaPath) IN
        IF r.err # "none" THEN Fail(p, c, r.err, Empty)
        ELSE IF ~validate(validator[p], r.doc)
             THEN Fail(p, c, "ValidationError", r.doc)
        ELSE /\ mem' = [mem EXCEPT ![p] = IF stamp THEN WithMTime(r.doc) ELSE r.doc]
             /\ pc' = [pc EXCEPT ![p] = "idle"]
             /\ err' = [err EXCEPT ![p] = "none"]
             /\ call' = [call EXCEPT ![p] = "none"]

\* GenericMeta(path=...): a job opens the build's meta.json
Open(p) ==
    /\ pc[p] \in {"start", "failed"}
    /\ ReadInto(p, "init", TRUE)
    /\ UNCHANGED <<files, lock, clock, validator, wpath, wmerge, wfinal,
                   disk_data, data, committed, pvars>>

\* m.read() on an open object
Read(p) ==
    /\ pc[p] = "idle"
    /\ ReadInto(p, "read", FALSE)
    /\ UNCHANGED <<files, lock, clock, validator, wpath, wmerge, wfinal,
                   disk_data, data, committed, pvars>>

(***************************************************************************)
(* What a job does to its in-memory document                               *)
(***************************************************************************)
ImageEntry(a) == D("path" :> S(a))
HasImage(doc, a) ==
    /\ "images" \in DOMAIN doc
    /\ doc["images"].t = "dict"
    /\ a \in DOMAIN doc["images"].v

Mutate(p, m) ==
    /\ pc[p] = "idle"
    /\ m # mem[p]
    /\ mem' = [mem EXCEPT ![p] = m]
    /\ UNCHANGED <<files, lock, clock, validator, pc, err, call, wpath, wmerge,
                   wfinal, disk_data, data, committed, pvars>>

\* m["images"][artifact] = {...}
SetImage(p) ==
    /\ "images" \in DOMAIN mem[p]
    /\ Mutate(p, Put(mem[p], "images",
                     D(Put(mem[p]["images"].v, Artifact(p), ImageEntry(Artifact(p))))))

\* m.set("coreos-assembler.delayed-meta-merge", True)
SetDelayed(p) == Mutate(p, Put(mem[p], COSA_DELAYED_MERGE, B(TRUE)))

\* del m["buildid"]: the document no longer satisfies the schema
DropBuildid(p) ==
    Mutate(p, [k \in DOMAIN mem[p] \ {"buildid"} |-> mem[p][k]])

(***************************************************************************)
(* GenericMeta.write and cmdlib.write_json                                 *)
(***************************************************************************)
\* the delayed-merge flag is not consulted
IsDelayed_never(doc, final) == FALSE

\* `final` is not consulted
IsDelayed_nofinal(doc, final) == Truthy(Get(doc, COSA_DELAYED_MERGE))

\* if self.get(COSA_DELAYED_MERGE) and not final
IsDelayed(doc, final) == Truthy(Get(doc, COSA_DELAYED_MERGE)) /\ ~final

\* write(artifact_name=an, final=final) up to the call of write_json:
\* validate(), the artifact name (time_ns() when none is given), the path,
\* and in delayed mode the fresh stamp and merge_func = None
WriteBegin(p, an, final) ==
    /\ pc[p] = "idle"
    /\ IF ~validate(validator[p], mem[p])
       THEN /\ Fail(p, "write", "ValidationError", mem[p])
            /\ UNCHANGED <<files, lock, clock, validator, wpath, wmerge, wfinal,
                           disk_data, data, committed, pvars>>
       ELSE LET c1 == IF an = "none" THEN clock[p] + 1 ELSE clock[p]
                name == IF an = "none" THEN ToString(c1) ELSE an
                delayed == IsDelayed(mem[p], final)
                c2 == IF delayed THEN c1 + 1 ELSE c1
            IN  /\ c2 + (IF delayed THEN 0 ELSE 1) <= MaxClock
                /\ clock' = [clock EXCEPT ![p] = c2]
                /\ mem' = [mem EXCEPT ![p] =
                            IF delayed THEN Put(@, COSA_VER_STAMP, N(c2)) ELSE @]
                /\ wpath' = [wpath EXCEPT ![p] =
                              IF delayed THEN SidePath(name) ELSE MetaPath]
                /\ wmerge' = [wmerge EXCEPT ![p] = ~delayed]
                /\ wfinal' = [wfinal EXCEPT ![p] = final]
                /\ pc' = [pc EXCEPT ![p] = "w_lock"]
                /\ call' = [call EXCEPT ![p] = "write"]
                /\ err' = [err EXCEPT ![p] = "none"]
                /\ UNCHANGED <<files, lock, validator, disk_data, data, committed, pvars>>

\* a write_json whose re-read asks for the lock again (require_exclusive
\* left at True): the process has the lock and waits for it
WriteLock_exclusive(p) ==
    /\ pc[p] = "w_lock"
    /\ LockFree(get_lock_path(wpath[p]))
    /\ lock' = (get_lock_path(wpath[p]) :> p) @@ lock
    /\ UNCHANGED <<files, mvars, committed, pvars>>

\* a write_json that takes the lock without `with`: an exception raised by
\* the re-read or the merge leaves the lock behind
WriteLock_leak(p) ==
    /\ pc[p] = "w_lock"
    /\ LockFree(get_lock_path(wpath[p]))
    /\ LET r == load_or_empty(wpath[p])
           m == IF ~wmerge[p] THEN Ok(mem[p])
                ELSE IF r.err # "none" THEN r
                ELSE merge_meta(r.doc, mem[p], clock[p] + 1)
       IN /\ lock' = (get_lock_path(wpath[p]) :> p) @@ lock
          /\ IF m.err # "none"
             THEN /\ Fail(p, "write", m.err, mem[p])
                  /\ ResetLocals(p)
                  /\ UNCHANGED <<files, clock, validator, committed, pvars>>
             ELSE /\ disk_data' = [disk_data EXCEPT ![p] = IF wmerge[p] THEN r.doc ELSE Empty]
                  /\ data' = [data EXCEPT ![p] = m.doc]
                  /\ clock' = [clock EXCEPT ![p] = IF wmerge[p] THEN @ + 1 ELSE @]
                  /\ pc' = [pc EXCEPT ![p] = "w_rename"]
                  /\ UNCHANGED <<files, validator, mem, err, call, wpath, wmerge,
                                 wfinal, committed, pvars>>

\* write_json: `with Lock(lock_path)`, then with a merge function the re-read
\* of the file (a missing file is {}) and the merge, then the temporary file
\* and json.dump into it. An exception leaves the `with` block: the lock is
\* released and no file has changed.
WriteLock(p) ==
    /\ pc[p] = "w_lock"
    /\ LockFree(get_lock_path(wpath[p]))
    /\ LET r == load_or_empty(wpath[p])
           disk == r.doc
           m == IF ~wmerge[p] THEN Ok(mem[p])
                ELSE IF r.err # "none" THEN r
                ELSE merge_meta(disk, mem[p], clock[p] + 1)
       IN IF m.err # "none"
          THEN /\ Fail(p, "write", m.err, mem[p])
               /\ ResetLocals(p)
               /\ UNCHANGED <<files, lock, clock, validator, committed, pvars>>
          ELSE /\ lock' = (get_lock_path(wpath[p]) :> p) @@ lock
               /\ disk_data' = [disk_data EXCEPT ![p] = IF wmerge[p] THEN disk ELSE Empty]
               /\ data' = [data EXCEPT ![p] = m.doc]
               /\ clock' = [clock EXCEPT ![p] = IF wmerge[p] THEN @ + 1 ELSE @]
               /\ pc' = [pc EXCEPT ![p] = "w_rename"]
               /\ UNCHANGED <<files, validator, mem, err, call, wpath, wmerge,
                              wfinal, committed, pvars>>

\* shutil.move(f.name, path): the temporary file replaces the path. The file
\* object f has not been flushed or closed: what json.dump wrote is still
\* in its buffer, and the file now at `path` is empty or truncated.
WriteRename(p) ==
    /\ pc[p] = "w_rename"
    /\ files' = (wpath[p] :> [data |-> data[p], pending |-> p]) @@ files
    /\ pc' = [pc EXCEPT ![p] = "w_unlock"]
    /\ UNCHANGED <<lock, clock, validator, mem, err, call, wpath, wmerge, wfinal,
                   disk_data, data, committed, pvars>>

\* the end of the `with Lock(...)` block
WriteUnlock(p) ==
    /\ pc[p] = "w_unlock"
    /\ lock' = [k \in DOMAIN lock \ {get_lock_path(wpath[p])} |-> lock[k]]
    /\ pc' = [pc EXCEPT ![p] = "w_return"]
    /\ UNCHANGED <<files, clock, validator, mem, err, call, wpath, wmerge, wfinal,
                   disk_data, data, committed, pvars>>

\* write_json returns: f goes out of scope and is closed, which flushes the
\* buffer into the file it created (if that file is still the one at `path`)
WriteReturn(p) ==
    /\ pc[p] = "w_return"
    /\ files' = IF wpath[p] \in DOMAIN files /\ files[wpath[p]].pending = p
                THEN [files EXCEPT ![wpath[p]].pending = "none"]
                ELSE files
    /\ pc' = [pc EXCEPT ![p] = "w_read"]
    /\ UNCHANGED <<lock, clock, validator, mem, err, call, wpath, wmerge, wfinal,
                   disk_data, data, committed, pvars>>

\* a write() that returns the path without self.read(): the object keeps
\* the document it wrote
WriteRead_keep(p) ==
    /\ pc[p] = "w_read"
    /\ pc' = [pc EXCEPT ![p] = "idle"]
    /\ call' = [call EXCEPT ![p] = "none"]
    /\ committed' =
         IF wmerge[p] /\ HasImage(mem[p], Artifact(p))
         THEN committed \cup {Artifact(p)} ELSE committed
    /\ ResetLocals(p)
    /\ UNCHANGED <<files, lock, clock, validator, mem, err, pvars>>

\* self.read() and `return path`, the end of write()
WriteRead(p) ==
    /\ pc[p] = "w_read"
    /\ ReadInto(p, "write", FALSE)
    /\ committed' =
         IF pc'[p] = "idle" /\ wmerge[p] /\ HasImage(mem[p], Artifact(p))
         THEN committed \cup {Artifact(p)} ELSE committed
    /\ ResetLocals(p)
    /\ UNCHANGED <<files, lock, clock, validator, pvars>>

\* the steps every job has: open, re-read, register an image, and the steps
\* of a write once it has begun
Job(p) ==
    \/ Open(p)
    \/ Read(p)
    \/ SetImage(p)
    \/ WriteLock(p)
    \/ WriteRename(p)
    \/ WriteUnlock(p)
    \/ WriteReturn(p)
    \/ WriteRead(p)

\* jobs that write straight into meta.json: m.write() and
\* m.write(artifact_name=...), with a schema that requires buildid
Next ==
    \E p \in Procs :
        \/ Job(p)
        \/ DropBuildid(p)
        \/ \E an \in {"none", Artifact(p)} : WriteBegin(p, an, FALSE)

Spec == Init /\ [][Next]_vars

\* job B may stage its writes (delayed-merge) and finalize them, next to
\* job A, which writes as above
NextDelayed ==
    \/ Job("A")
    \/ \E an \in {"none", Artifact("A")} : WriteBegin("A", an, FALSE)
    \/ Job("B")
    \/ SetDelayed("B")
    \/ \E an \in {"none", Artifact("B")}, final \in BOOLEAN : WriteBegin("B", an, final)

SpecDelayed == Init /\ [][NextDelayed]_vars

\* job A is given the schema, job B is opened with schema=None: what B writes
\* is not validated
InitSchema ==
    /\ InitJobs(BaseDoc, {0}, [p \in Procs |-> p = "A"])
    /\ PureIdle

SpecSchema == InitSchema /\ [][Next]_vars

(***************************************************************************)
(* merge_meta on its own: write_json(path, y, merge_func=merge_meta) on a  *)
(* file that holds x, for x and y drawn from a bounded set of documents    *)
(***************************************************************************)
\* a document from optional parts (Null: the key is absent)
Part(k, val) == IF val = Null THEN Empty ELSE (k :> val)

StampOpts == {Null} \cup {N(n) : n \in 1..MaxStamp}
CommitOpts == {Null, S(""), S("c1"), S("c2")}
GitOpts == {Null, D("commit" :> S("g1")), D("commit" :> S("g2"))}
NameOpts == {Null, S("fedora-coreos"), S("rhcos")}
ImagesOpts ==
    {Null, D("qemu" :> ImageEntry("qemu")),
     D(("qemu" :> ImageEntry("other")) @@ ("aws" :> ImageEntry("aws")))}
PkgOpts == {Null, L(<<S("a")>>), L(<<S("b")>>), S("none")}

\* documents that differ in their identity fields, and documents that differ
\* in their content
DocSet ==
    {Part(COSA_VER_STAMP, st) @@ Part("ostree-commit", c) @@ Part(cosa_git, g)
       @@ ("name" :> S("fedora-coreos")) :
       st \in StampOpts, c \in CommitOpts, g \in GitOpts}
    \cup
    {Part(COSA_VER_STAMP, st) @@ Part("name", n) @@ Part("images", i)
       @@ Part("pkgs", k) :
       st \in StampOpts, n \in NameOpts, i \in ImagesOpts, k \in PkgOpts}

InitMerge ==
    /\ InitWith(BaseDoc, {0})
    /\ px \in DocSet
    /\ py \in DocSet
    /\ pnow \in 1..MaxStamp
    /\ pres = Raise("pending")
    /\ pdisk = px
    /\ OthersIdle

\* data = merge_func(disk_data, mem_data), and the rename when it returns
ApplyMerge ==
    /\ pres.err = "pending"
    /\ pres' = merge_meta(px, py, pnow)
    /\ pdisk' = IF pres'.err = "none" THEN pres'.doc ELSE pdisk
    /\ UNCHANGED <<px, py, pnow, cvars, ovars>>

SpecMerge == InitMerge /\ [][ApplyMerge]_vars

(***************************************************************************)
(* Properties of merge_meta (SpecMerge)                                    *)
(***************************************************************************)
Applied == pres.err # "pending"

\* both documents define an identity field, with different values
BothDefineDiffer(x, y) ==
    \/ \E i \in IdentityFields :
          i \in DOMAIN x /\ i \in DOMAIN y /\ x[i] # y[i]
    \/ /\ cosa_git \in DOMAIN x /\ cosa_git \in DOMAIN y
       /\ x[cosa_git].t = "dict" /\ y[cosa_git].t = "dict"
       /\ "commit" \in DOMAIN x[cosa_git].v /\ "commit" \in DOMAIN y[cosa_git].v
       /\ x[cosa_git].v["commit"] # y[cosa_git].v["commit"]

\* C4: when the on-disk and the in-memory document both define an identity
\* field with different values, the write raises the merge-conflict error and
\* the file on disk is left as it was.
C4_MergeIdentityRule ==
    (Applied /\ BothDefineDiffer(px, py)) =>
        (pres.err = "COSAMergeError" /\ pdisk = px)

\* the keys of y other than the stamp
Unstamped(d) == DOMAIN d \ {COSA_VER_STAMP}

\* C6: with equal stamps and no identity conflict, merge(x, y) is y with a
\* new stamp: every key of y with y's value, and no key that y does not have.
C6_EqualStampTakesMemory ==
    (Applied /\ pres.err = "none" /\ StampOf(px) = StampOf(py)) =>
        /\ DOMAIN pres.doc = DOMAIN py \cup {COSA_VER_STAMP}
        /\ \A k \in Unstamped(py) : pres.doc[k] = py[k]
        /\ pres.doc[COSA_VER_STAMP] = N(pnow)

\* C6 witness: equal stamps, documents that differ, x holds a key y lacks
C6_Witness ==
    /\ Applied /\ pres.err = "none" /\ StampOf(px) = StampOf(py)
    /\ DOMAIN px \ DOMAIN py # {}
    /\ \E k \in Unstamped(px) \cap Unstamped(py) : px[k] # py[k]

\* the keys both documents hold whose values are neither both nested objects
\* nor both sequences (the stamp itself is rewritten by the merge)
PlainShared(x, y) ==
    {k \in Unstamped(x) \cap Unstamped(y) :
        /\ ~(x[k].t = "dict" /\ y[k].t = "dict")
        /\ ~(x[k].t = "list" /\ y[k].t = "list")}

LowerStamp(x, y) == IF StampOf(x) < StampOf(y) THEN x ELSE y
HigherStamp(x, y) == IF StampOf(x) > StampOf(y) THEN x ELSE y

\* C7 as stated: when the stamps differ, a key held by both documents with
\* plain values gets the value of the lower-stamp document.
C7_LowerStampWins ==
    (Applied /\ pres.err = "none" /\ StampOf(px) # StampOf(py)) =>
        \A k \in PlainShared(px, py) : pres.doc[k] = LowerStamp(px, py)[k]

\* C7 amended: when the stamps differ, a key other than the stamp held by both
\* documents with plain values gets the value of the HIGHER-stamp document
\* (it is the first argument of merge_dicts, which takes precedence).
C7_HigherStampWins ==
    (Applied /\ pres.err = "none" /\ StampOf(px) # StampOf(py)) =>
        /\ \A k \in PlainShared(px, py) : pres.doc[k] = HigherStamp(px, py)[k]
        /\ Unstamped(pres.doc) = Unstamped(px) \cup Unstamped(py)

\* C7 witness: stamps differ and the documents disagree on a plain key
C7_Witness ==
    /\ Applied /\ pres.err = "none" /\ StampOf(px) # StampOf(py)
    /\ \E k \in PlainShared(px, py) : px[k] # py[k]

(***************************************************************************)
(* Properties of the write protocol (Spec)                                 *)
(***************************************************************************)
Canon == files[MetaPath]
InWriteJson(p) == pc[p] \in {"w_rename", "w_unlock"}
Quiescent == \A p \in Procs : pc[p] \in {"start", "idle", "failed"}
MaxOf(a, b) == IF a > b THEN a ELSE b

\* C1: once every job has added its images.<key> and its write() has
\* returned, and no call is in progress, meta.json holds every added key.
C1_NoLostAdditions ==
    (Quiescent /\ committed = {Artifact(p) : p \in Procs}) =>
        \A a \in committed : HasImage(Canon.data, a)

\* C2: from the re-read to the rename the writer holds the lock of the path,
\* the file at the path is still the document it re-read, and what it is about
\* to rename into place is merge_func(that document, the in-memory copy);
\* after the rename and until the unlock the path holds that result.
C2_Linearized ==
    \A p \in Procs :
        /\ InWriteJson(p) =>
              /\ get_lock_path(wpath[p]) \in DOMAIN lock
              /\ lock[get_lock_path(wpath[p])] = p
        /\ (pc[p] = "w_rename" /\ wmerge[p]) =>
              /\ load(wpath[p]) = Ok(disk_data[p])
              /\ Ok(data[p]) = merge_meta(files[wpath[p]].data, mem[p], clock[p])
        /\ pc[p] = "w_unlock" => files[wpath[p]].data = data[p]

\* C2 witness: a writer between its re-read and its rename, with a merge that
\* changes the file, while the other writer waits for the same lock
C2_Witness ==
    \E p, q \in Procs :
        /\ p # q
        /\ pc[p] = "w_rename" /\ wmerge[p] /\ data[p] # disk_data[p]
        /\ HasImage(disk_data[p], Artifact(q)) /\ HasImage(mem[p], Artifact(p))
        /\ pc[q] = "w_lock" /\ wpath[q] = wpath[p]

\* C3: no read of a path ever finds an empty, partial or mixed file
\* (json.load raises ValueError on one).
C3_NoTornRead == \A p \in Procs : err[p] # "ValueError"

\* C5: the stamp a merge gives its result is strictly greater than the stamps
\* of both merged documents (so the stamp in meta.json strictly increases).
C5_StampMonotone ==
    \A p \in Procs :
        (pc[p] = "w_rename" /\ wmerge[p]) =>
            StampOf(data[p]) > MaxOf(StampOf(disk_data[p]), StampOf(mem[p]))

\* C10: a write() of a document that violates the schema raises the validation
\* error in its first step, and that step changes no file and takes no lock.
C10_InvalidWriteRejected ==
    [][\A p \in Procs :
          (pc[p] = "idle" /\ call'[p] = "write" /\ ~SchemaValid(mem[p])) =>
              /\ pc'[p] = "failed"
              /\ err'[p] = "ValidationError"
              /\ files' = files
              /\ lock' = lock]_vars

\* C10 witness: a write() has failed validation
C10_Witness ==
    \E p \in Procs :
        /\ pc[p] = "failed" /\ call[p] = "write" /\ err[p] = "ValidationError"
        /\ ~SchemaValid(mem[p])

(***************************************************************************)
(* Properties of the delayed-merge mode (SpecDelayed)                      *)
(***************************************************************************)
DelayedFlag(doc) == Truthy(Get(doc, COSA_DELAYED_MERGE))
Began(p) == pc[p] = "idle" /\ pc'[p] = "w_lock"
Moved(p, from, to) == pc[p] = from /\ pc'[p] = to
SideFiles == DOMAIN files \ {MetaPath}

\* C8: with the delayed-merge flag set in memory, write(artifact_name=X) with
\* final=False targets meta.<X>.json without a merge function, gives the
\* in-memory document a fresh stamp, renames exactly that document into
\* meta.<X>.json, ends with that path, and none of its steps changes meta.json.
C8_DelayedStaging ==
    [][\A p \in Procs :
          /\ (WriteBegin(p, Artifact(p), FALSE) /\ Began(p) /\ DelayedFlag(mem[p])) =>
                /\ wpath'[p] = SidePath(Artifact(p))
                /\ ~wmerge'[p]
                /\ clock'[p] > clock[p]
                /\ mem'[p] = Put(mem[p], COSA_VER_STAMP, N(clock'[p]))
                /\ files' = files
          /\ (Moved(p, "w_lock", "w_rename") /\ wpath[p] # MetaPath) =>
                data'[p] = mem[p] /\ files' = files
          /\ (Moved(p, "w_rename", "w_unlock") /\ wpath[p] # MetaPath) =>
                /\ files'[wpath[p]].data = mem[p]
                /\ files'[MetaPath] = files[MetaPath]
          /\ (pc'[p] # pc[p] /\ wpath[p] # MetaPath) =>
                /\ files'[MetaPath] = files[MetaPath]
                /\ pc'[p] = "idle" => wpath[p] \in DOMAIN files]_vars

\* C8 witness: job B has renamed its document, which holds images.aws, into
\* meta.aws.json, and meta.json does not hold images.aws
C8_Witness ==
    /\ pc["B"] = "w_unlock" /\ wpath["B"] = SidePath("aws") /\ ~wfinal["B"]
    /\ DelayedFlag(mem["B"]) /\ HasImage(mem["B"], "aws")
    /\ files[SidePath("aws")].data = mem["B"]
    /\ ~HasImage(Canon.data, "aws")

\* meta.aws.json holds a staged document with images.aws
Staged ==
    /\ SidePath("aws") \in DOMAIN files
    /\ files[SidePath("aws")].pending = "none"
    /\ HasImage(files[SidePath("aws")].data, "aws")

C11_InvalidReadRejected ==
    [][\A p \in Procs :
          ((Open(p) \/ Read(p)) /\ validator[p]) =>
              /\ (load(MetaPath).err = "none" /\ ~SchemaValid(load(MetaPath).doc)) =>
                    pc'[p] = "failed" /\ err'[p] = "ValidationError"
              /\ pc'[p] = "idle" => SchemaValid(mem'[p])]_vars

\* C11 witness: read() on an open object has raised the validation error on
\* a meta.json that lacks buildid
C11_Witness ==
    /\ pc["A"] = "failed" /\ call["A"] = "read" /\ err["A"] = "ValidationError"
    /\ validator["A"]
    /\ Canon.pending = "none" /\ ~SchemaValid(Canon.data)

(***************************************************************************)
(* The Build Index: cosalib.builds.Builds over builds/builds.json          *)
(***************************************************************************)
BuildsPath == "builds.json"
Ids == {"b1", "b2"}
Arches == {"x86_64", "aarch64"}

\* get_basearch(): the architecture of the machine
BaseArch == "x86_64"

\* semver.parse_version_info(self._data.get('schema-version', "0.0.1")):
\* a version is <<major, minor, patch>>, <<>> when the key is absent
SchemaVersion(d) == IF d.ver = <<>> THEN <<0, 0, 1>> ELSE d.ver

\* only the check for a version that is too new
VersionCheck_newonly(d) ==
    IF SchemaVersion(d)[1] >= 2 THEN "Exception" ELSE "none"

\* the two checks on the major version; "none" when the index is accepted
VersionCheck(d) ==
    IF SchemaVersion(d)[1] >= 2 THEN "Exception"
    ELSE IF SchemaVersion(d)[1] < 1 THEN "SystemExit"
    ELSE "none"

\* the index of a new workdir
NewIndex == [ver |-> <<1, 0, 0>>, builds |-> <<>>, timestamp |-> "none"]

has(d, build_id) == \E i \in 1..Len(d.builds) : d.builds[i].id = build_id

\* the first record the loop of insert_build finds for build_id
FirstOf(d, build_id) ==
    CHOOSE i \in 1..Len(d.builds) :
        /\ d.builds[i].id = build_id
        /\ \A j \in 1..(i - 1) : d.builds[j].id # build_id

get_latest(d) ==
    IF d.builds = <<>> THEN [err |-> "IndexError", v |-> "none"]
    ELSE [err |-> "none", v |-> d.builds[1].id]

\* insert_build that moves the record it extends to the front
insert_build_front(d, build_id, basearch) ==
    LET arch == IF basearch = "none" THEN BaseArch ELSE basearch IN
    IF has(d, build_id)
    THEN LET i == FirstOf(d, build_id) IN
         IF InSeq(arch, d.builds[i].arches)
         THEN Raise("Exception")
         ELSE Ok([d EXCEPT !.builds =
                    <<[@[i] EXCEPT !.arches = @ \o <<arch>>]>> \o
                    SubSeq(@, 1, i - 1) \o SubSeq(@, i + 1, Len(@))])
    ELSE Ok([d EXCEPT !.builds = <<[id |-> build_id, arches |-> <<arch>>]>> \o @])

\* insert_build without the check for an architecture already listed
insert_build_dup(d, build_id, basearch) ==
    LET arch == IF basearch = "none" THEN BaseArch ELSE basearch IN
    IF has(d, build_id)
    THEN Ok([d EXCEPT !.builds[FirstOf(d, build_id)].arches = @ \o <<arch>>])
    ELSE Ok([d EXCEPT !.builds = <<[id |-> build_id, arches |-> <<arch>>]>> \o @])

\* insert_build that always adds a record
insert_build_new(d, build_id, basearch) ==
    LET arch == IF basearch = "none" THEN BaseArch ELSE basearch IN
    IF has(d, build_id) /\ InSeq(arch, d.builds[FirstOf(d, build_id)].arches)
    THEN Raise("Exception")
    ELSE Ok([d EXCEPT !.builds = <<[id |-> build_id, arches |-> <<arch>>]>> \o @])

insert_build(d, build_id, basearch) ==
    LET arch == IF basearch = "none" THEN BaseArch ELSE basearch IN
    IF has(d, build_id)
    THEN LET i == FirstOf(d, build_id) IN
         IF InSeq(arch, d.builds[i].arches)
         THEN Raise("Exception")
         ELSE Ok([d EXCEPT !.builds[i].arches = @ \o <<arch>>])
    ELSE Ok([d EXCEPT !.builds = <<[id |-> build_id, arches |-> <<arch>>]>> \o @])

\* what a Builds call leaves in the object of process p
BSet(p, c, d, e, k, r) ==
    /\ bpc' = [bpc EXCEPT ![p] = c]
    /\ bdata' = [bdata EXCEPT ![p] = d]
    /\ berr' = [berr EXCEPT ![p] = e]
    /\ bcall' = [bcall EXCEPT ![p] = k]
    /\ bret' = [bret EXCEPT ![p] = r]
    /\ UNCHANGED <<bdir, mvars, purevars, svars, kvars>>

\* a constructor that keeps the index of a new workdir in memory only
BOpen_noflush(p) ==
    /\ bpc[p] \in {"closed", "failed"}
    /\ UNCHANGED <<files, lock>>
    /\ IF ~bdir THEN BSet(p, "failed", NoIndex, "Exception", "init", "none")
       ELSE IF BuildsPath \in DOMAIN files
       THEN /\ LockFree(get_lock_path(BuildsPath))
            /\ LET r == load(BuildsPath) IN
                 IF r.err # "none"
                 THEN BSet(p, "failed", NoIndex, r.err, "init", "none")
                 ELSE IF VersionCheck(r.doc) # "none"
                 THEN BSet(p, "failed", NoIndex, VersionCheck(r.doc), "init", "none")
                 ELSE BSet(p, "open", r.doc, "none", "none", "none")
       ELSE BSet(p, "open", NewIndex, "none", "none", "none")

\* Builds(workdir): no builds/ directory, an existing builds.json (read under
\* its lock, then the version checks), or a new workdir (a new index, flushed)
BOpen(p) ==
    /\ bpc[p] \in {"closed", "failed"}
    /\ UNCHANGED <<files, lock>>
    /\ IF ~bdir THEN BSet(p, "failed", NoIndex, "Exception", "init", "none")
       ELSE IF BuildsPath \in DOMAIN files
       THEN /\ LockFree(get_lock_path(BuildsPath))
            /\ LET r == load(BuildsPath) IN
                 IF r.err # "none"
                 THEN BSet(p, "failed", NoIndex, r.err, "init", "none")
                 ELSE IF VersionCheck(r.doc) # "none"
                 THEN BSet(p, "failed", NoIndex, VersionCheck(r.doc), "init", "none")
                 ELSE BSet(p, "open", r.doc, "none", "none", "none")
       ELSE BSet(p, "f_lock", NewIndex, "none", "init", "none")

\* an insert_build that writes builds.json at once
InsertBuild_flush(p, build_id, basearch) ==
    /\ bpc[p] = "open"
    /\ LET r == insert_build(bdata[p], build_id, basearch) IN
         IF r.err # "none"
         THEN /\ BSet(p, "open", bdata[p], r.err, "insert_build", "none")
              /\ UNCHANGED files
         ELSE /\ BSet(p, "open", r.doc, "none", "insert_build", "none")
              /\ files' = (BuildsPath :> [data |-> r.doc, pending |-> "none"]) @@ files
    /\ UNCHANGED lock

\* builds.insert_build(build_id, basearch): a duplicate raises and the
\* object stays usable
InsertBuild(p, build_id, basearch) ==
    /\ bpc[p] = "open"
    /\ LET r == insert_build(bdata[p], build_id, basearch) IN
         IF r.err # "none"
         THEN BSet(p, "open", bdata[p], r.err, "insert_build", "none")
         ELSE BSet(p, "open", r.doc, "none", "insert_build", "none")
    /\ UNCHANGED <<files, lock>>

\* builds.get_latest()
GetLatest(p) ==
    /\ bpc[p] = "open"
    /\ BSet(p, "open", bdata[p], get_latest(bdata[p]).err, "get_latest",
            get_latest(bdata[p]).v)
    /\ UNCHANGED <<files, lock>>

\* get_build_dir that looks the build id up in the index first
get_build_dir_checked(d, build_id, basearch) ==
    IF build_id = "latest" THEN get_latest(d)
    ELSE IF ~has(d, build_id) THEN [err |-> "AssertionError", v |-> "none"]
    ELSE [err |-> "none",
          v |-> "builds/" \o build_id \o "/"
                    \o (IF basearch = "none" THEN BaseArch ELSE basearch)]

\* get_build_dir: 'latest' is resolved by get_latest, a missing basearch is
\* the current one, and the result is the joined path
get_build_dir(d, build_id, basearch) ==
    LET id == IF build_id = "latest" THEN get_latest(d)
              ELSE [err |-> "none", v |-> build_id]
        arch == IF basearch = "none" THEN BaseArch ELSE basearch
    IN  IF id.err # "none" THEN [err |-> id.err, v |-> "none"]
        ELSE [err |-> "none", v |-> "builds/" \o id.v \o "/" \o arch]

\* the calls of get_build_dir that are made: a build id with an architecture,
\* and 'latest' for the current one
DirCalls == {<<"b1", "aarch64">>, <<"latest", "none">>}

\* builds.get_build_dir(build_id, basearch)
GetBuildDir(p, build_id, basearch) ==
    /\ bpc[p] = "open"
    /\ BSet(p, "open", bdata[p], get_build_dir(bdata[p], build_id, basearch).err,
            "get_build_dir", get_build_dir(bdata[p], build_id, basearch).v)
    /\ UNCHANGED <<files, lock>>

\* the instants rfc3339_time() is read at
Times == {"T1"}

\* builds.bump_timestamp(), up to the call of write_json in flush()
BumpTimestamp(p) ==
    /\ bpc[p] = "open"
    /\ \E t \in Times :
          BSet(p, "f_lock", [bdata[p] EXCEPT !.timestamp = t], "none",
               "bump_timestamp", "none")
    /\ UNCHANGED <<files, lock>>

\* builds.flush(), up to the call of write_json
Flush(p) ==
    /\ bpc[p] = "open"
    /\ BSet(p, "f_lock", bdata[p], "none", "flush", "none")
    /\ UNCHANGED <<files, lock>>

\* write_json(self._fn, self._data): `with Lock(lock_path)`, no merge
\* function, the temporary file and json.dump into it
FlushLock(p) ==
    /\ bpc[p] = "f_lock"
    /\ LockFree(get_lock_path(BuildsPath))
    /\ lock' = (get_lock_path(BuildsPath) :> p) @@ lock
    /\ BSet(p, "f_rename", bdata[p], berr[p], bcall[p], bret[p])
    /\ UNCHANGED files

\* shutil.move(f.name, path), f neither flushed nor closed
FlushRename(p) ==
    /\ bpc[p] = "f_rename"
    /\ files' = (BuildsPath :> [data |-> bdata[p], pending |-> p]) @@ files
    /\ BSet(p, "f_unlock", bdata[p], berr[p], bcall[p], bret[p])
    /\ UNCHANGED lock

\* the end of the `with Lock(...)` block
FlushUnlock(p) ==
    /\ bpc[p] = "f_unlock"
    /\ lock' = [k \in DOMAIN lock \ {get_lock_path(BuildsPath)} |-> lock[k]]
    /\ BSet(p, "f_return", bdata[p], berr[p], bcall[p], bret[p])
    /\ UNCHANGED files

\* write_json returns (f is closed, its buffer reaches the file) and so does
\* flush(); in __init__ the version checks follow
FlushReturn(p) ==
    /\ bpc[p] = "f_return"
    /\ files' = IF BuildsPath \in DOMAIN files /\ files[BuildsPath].pending = p
                THEN [files EXCEPT ![BuildsPath].pending = "none"]
                ELSE files
    /\ IF bcall[p] = "init" /\ VersionCheck(bdata[p]) # "none"
       THEN BSet(p, "failed", NoIndex, VersionCheck(bdata[p]), "init", "none")
       ELSE BSet(p, "open", bdata[p], "none", "none", "none")
    /\ UNCHANGED lock

BuildRecord(build_id, arch) == [id |-> build_id, arches |-> <<arch>>]

\* the builds.json a workdir may hold: accepted versions with zero, one or
\* two builds, and versions that are too new, too old or absent
GoodIndexes ==
    {[ver |-> <<1, 0, 0>>, builds |-> b, timestamp |-> "T0"] :
        b \in {<<>>, <<BuildRecord("b1", "x86_64")>>,
               <<BuildRecord("b2", "aarch64"), BuildRecord("b1", "x86_64")>>}}
BadIndexes ==
    {[ver |-> v, builds |-> <<BuildRecord("b1", "x86_64")>>, timestamp |-> "T0"] :
        v \in {<<2, 0, 0>>, <<0, 9, 0>>, <<>>}}

InitBuilds ==
    /\ bdir \in BOOLEAN
    /\ \/ files = [k \in {} |-> NoIndex]
       \/ /\ bdir
          /\ \E d \in GoodIndexes \cup BadIndexes :
                files = (BuildsPath :> [data |-> d, pending |-> "none"])
    /\ JobsIdle({0}, [p \in Procs |-> TRUE])
    /\ bpc = [p \in Procs |-> "closed"]
    /\ bdata = [p \in Procs |-> NoIndex]
    /\ berr = [p \in Procs |-> "none"]
    /\ bcall = [p \in Procs |-> "none"]
    /\ bret = [p \in Procs |-> "none"]
    /\ px = Empty /\ py = Empty /\ pnow = 0 /\ pres = Raise("pending") /\ pdisk = Empty
    /\ GetSetIdle
    /\ KIdle

\* the steps of an open Builds object that every process has
BuildsJob(p) ==
    \/ BOpen(p)
    \/ BumpTimestamp(p)
    \/ FlushLock(p)
    \/ FlushRename(p)
    \/ FlushUnlock(p)
    \/ FlushReturn(p)

\* process A inserts any build for any architecture and asks for the latest;
\* process B registers build b2 for its own architecture
NextBuilds ==
    \/ BuildsJob("A")
    \/ \E b \in Ids, a \in Arches \cup {"none"} : InsertBuild("A", b, a)
    \/ GetLatest("A")
    \/ \E c \in DirCalls : GetBuildDir("A", c[1], c[2])
    \/ Flush("A")
    \/ BuildsJob("B")
    \/ InsertBuild("B", "b2", "none")

SpecBuilds == InitBuilds /\ [][NextBuilds]_vars

(***************************************************************************)
(* Properties of the Build Index (SpecBuilds)                              *)
(***************************************************************************)
ArchArgs == Arches \cup {"none"}
ArchOf(basearch) == IF basearch = "none" THEN BaseArch ELSE basearch

\* an insert_build(b, a) that returns, on a non-empty index whose first
\* record is not b
InsertedBehind(p, b, a) ==
    /\ InsertBuild(p, b, a)
    /\ berr'[p] = "none"
    /\ bdata[p].builds # <<>>
    /\ bdata[p].builds[1].id # b

\* C12 as stated: on a non-empty index whose first record is not B, after
\* insert_build(B, arch) returns, get_latest() returns B, whether or not B was
\* already recorded.
C12_InsertedIsLatest ==
    [][\A p \in Procs, b \in Ids, a \in ArchArgs :
          InsertedBehind(p, b, a) => get_latest(bdata'[p]) = [err |-> "none", v |-> b]]_vars

\* C12 amended: get_latest() returns B when B was not recorded; when B was
\* already recorded (for another architecture) the records keep their order
\* and get_latest() still returns the first record's id.
C12_NewIsLatest ==
    [][\A p \in Procs, b \in Ids, a \in ArchArgs :
          InsertedBehind(p, b, a) =>
              get_latest(bdata'[p]) =
                 [err |-> "none",
                  v |-> IF has(bdata[p], b) THEN bdata[p].builds[1].id ELSE b]]_vars

\* C12 witness: insert_build has added an architecture to the second record
C12_Witness ==
    /\ bpc["A"] = "open" /\ bcall["A"] = "insert_build" /\ berr["A"] = "none"
    /\ Len(bdata["A"].builds) = 2
    /\ Len(bdata["A"].builds[2].arches) = 2

\* C13: insert_build(id, arch) on an index whose record for id lists arch
\* raises and leaves the in-memory index as it was.
C13_DuplicateArchRejected ==
    [][\A p \in Procs, b \in Ids, a \in ArchArgs :
          (/\ InsertBuild(p, b, a)
           /\ \E i \in 1..Len(bdata[p].builds) :
                 /\ bdata[p].builds[i].id = b
                 /\ InSeq(ArchOf(a), bdata[p].builds[i].arches)) =>
              /\ berr'[p] = "Exception"
              /\ bdata'[p] = bdata[p]]_vars

\* C13 witness: an insert_build on a two-record index has raised
C13_Witness ==
    /\ bpc["A"] = "open" /\ bcall["A"] = "insert_build" /\ berr["A"] = "Exception"
    /\ Len(bdata["A"].builds) = 2

NoRepeat(q) == \A i, j \in 1..Len(q) : q[i] = q[j] => i = j
WellFormed(d) ==
    /\ \A i, j \in 1..Len(d.builds) : d.builds[i].id = d.builds[j].id => i = j
    /\ \A i \in 1..Len(d.builds) : NoRepeat(d.builds[i].arches)

\* C14: in every index object, every build id occurs in exactly one record
\* and no record lists an architecture twice.
C14_RecordInvariant == \A p \in Procs : WellFormed(bdata[p])

\* C14 witness: after a failed insert_build the index holds every id for
\* every architecture
C14_Witness ==
    /\ bcall["A"] = "insert_build" /\ berr["A"] = "Exception"
    /\ Len(bdata["A"].builds) = 2
    /\ \A i \in 1..2 : Len(bdata["A"].builds[i].arches) = 2

\* a flush of process p that brings a build id builds.json does not hold yet,
\* over a builds.json whose last writer has returned
FlushesNewId(p) ==
    /\ FlushRename(p)
    /\ BuildsPath \in DOMAIN files
    /\ files[BuildsPath].pending = "none"
    /\ \E b \in Ids : has(bdata[p], b) /\ ~has(files[BuildsPath].data, b)

\* C15: when a process flushes an index into which it has inserted a new
\* build id, every build id builds.json held before the rename is still in
\* it afterwards (no writer overwrites a record another writer has flushed).
C15_NoLostInsert ==
    [][\A p \in Procs :
          FlushesNewId(p) =>
              \A b \in Ids :
                  has(files[BuildsPath].data, b) => has(files'[BuildsPath].data, b)]_vars

\* C16: with a builds.json in place, Builds() returns an object exactly when
\* the major schema version (0 for an absent key) is 1; otherwise it raises,
\* and in both cases builds.json is left as it is.
C16_VersionGate ==
    [][\A p \in Procs :
          (BOpen(p) /\ bdir /\ load(BuildsPath).err = "none") =>
              LET major == SchemaVersion(files[BuildsPath].data)[1] IN
              /\ bpc'[p] = "open" <=> major = 1
              /\ major # 1 => bpc'[p] = "failed" /\ berr'[p] \in {"Exception", "SystemExit"}
              /\ files' = files]_vars

\* C16 witness: Builds() has raised on a builds.json without schema-version
C16_Witness ==
    /\ bpc["A"] = "failed" /\ bcall["A"] = "init" /\ berr["A"] = "SystemExit"
    /\ BuildsPath \in DOMAIN files
    /\ files[BuildsPath].data.ver = <<>>

(***************************************************************************)
(* GenericMeta.get and GenericMeta.set                                     *)
(***************************************************************************)
RECURSIVE Descend(_, _)
\* haystack = haystack[arg] for each arg of the path: a key missing from a
\* dict raises KeyError, a subscript of anything else raises TypeError
Descend(haystack, path) ==
    IF path = <<>> THEN [err |-> "none", v |-> haystack]
    ELSE IF haystack.t # "dict" THEN [err |-> "TypeError", v |-> Null]
    ELSE IF Head(path) \notin DOMAIN haystack.v THEN [err |-> "KeyError", v |-> Null]
    ELSE Descend(haystack.v[Head(path)], Tail(path))

\* get(path, default) with a list path: only KeyError is caught
get(doc, path, default) ==
    LET r == Descend(D(doc), path) IN
    IF r.err = "KeyError" THEN [err |-> "none", v |-> default] ELSE r

RECURSIVE SetIn(_, _, _, _)
\* the loop of set(): `loc` starts as dict(self), a copy of the top level, and
\* moves into the nested dicts, which are the document's own objects; an
\* assignment into the copy (top) does not reach the document
SetIn(loc, pathing, value, top) ==
    IF pathing = <<>> THEN [err |-> "Exception", doc |-> loc]
    ELSE LET k == Head(pathing) IN
         IF k \notin DOMAIN loc THEN [err |-> "KeyError", doc |-> loc]
         ELSE IF loc[k].t = "dict"
         THEN LET r == SetIn(loc[k].v, Tail(pathing), value, FALSE) IN
              [err |-> r.err,
               doc |-> IF r.err = "none" THEN Put(loc, k, D(r.doc)) ELSE loc]
         ELSE [err |-> "none", doc |-> IF top THEN loc ELSE Put(loc, k, value)]

\* set() that assigns nothing
set_noop(doc, pathing, value) == [err |-> "none", doc |-> doc]

\* set() that creates a top-level key where the path cannot be followed
set_create(doc, pathing, value) ==
    IF Len(pathing) > 1 /\ SetIn(doc, pathing, value, TRUE).err # "none"
    THEN [err |-> "none", doc |-> Put(doc, pathing[1], value)]
    ELSE IF Len(pathing) = 1 THEN [err |-> "none", doc |-> Put(doc, pathing[1], value)]
    ELSE SetIn(doc, pathing, value, TRUE)

\* set(pathing, value) with a list path
set(doc, pathing, value) ==
    IF Len(pathing) = 1 THEN [err |-> "none", doc |-> Put(doc, pathing[1], value)]
    ELSE SetIn(doc, pathing, value, TRUE)

\* m.get(path, default)
GetPath(p, path, default) ==
    /\ pc[p] = "idle"
    /\ gret' = get(mem[p], path, default)
    /\ UNCHANGED <<cvars, purevars, bvars, slast, kvars>>

\* m.set(pathing, value)
SetPath(p, pathing, value) ==
    /\ pc[p] = "idle"
    /\ LET r == set(mem[p], pathing, value) IN
         /\ mem' = [mem EXCEPT ![p] = r.doc]
         /\ gret' = [err |-> r.err, v |-> Null]
         /\ slast' = [path |-> pathing, val |-> value,
                      before |-> mem[p], after |-> r.doc]
    /\ UNCHANGED <<files, lock, clock, validator, pc, err, call, wpath, wmerge,
                   wfinal, disk_data, data, committed, purevars, bvars, kvars>>

\* the document of the tests, with a sequence and an object of objects
SetDoc ==
    ("test" :> S("data")) @@ ("name" :> S("fedora-coreos")) @@
    ("a" :> D("b" :> S("c"))) @@ ("pkgs" :> L(<<S("x")>>)) @@
    ("n" :> D("m" :> D(Empty)))

Paths ==
    {<<"test">>, <<"pkgs">>, <<"a", "b">>, <<"a", "d">>, <<"a", "b", "c", "d">>,
     <<"test", "x">>, <<"i", "donot", "exist">>, <<"n", "m">>, <<"a", "zz", "k">>}
Values == {S("z"), L(<<S("y")>>)}

\* one job, opened with schema=None, over a meta.json that is not stamped
\* yet or that an earlier write has stamped
InitSet ==
    /\ \E d \in {SetDoc, Put(SetDoc, COSA_VER_STAMP, N(MTime + 1))} :
          InitJobs(d, {0}, [p \in Procs |-> FALSE])
    /\ PureIdle

NextSet ==
    \/ Open("A")
    \/ \E path \in Paths, v \in Values : SetPath("A", path, v)
    \/ \E path \in Paths, v \in {Null, S("nope")} : GetPath("A", path, v)
    \/ WriteBegin("A", "none", FALSE)
    \/ WriteLock("A")
    \/ WriteRename("A")
    \/ WriteUnlock("A")
    \/ WriteReturn("A")
    \/ WriteRead("A")

SpecSet == InitSet /\ [][NextSet]_vars

(***************************************************************************)
(* Properties of get and set (SpecSet)                                     *)
(***************************************************************************)
Defaults == {Null, S("nope")}

\* C17: get(path, default) with a list path never raises: it returns the
\* value at the path when the path can be descended, and default otherwise,
\* also when an intermediate value is not an object.
C17_GetNeverRaises ==
    [][\A path \in Paths, default \in Defaults :
          GetPath("A", path, default) =>
              /\ gret'.err = "none"
              /\ gret'.v = IF Descend(D(mem["A"]), path).err = "none"
                           THEN Descend(D(mem["A"]), path).v
                           ELSE default]_vars

RECURSIVE Walk(_, _, _)
\* where a path stops in a document: at a missing key, at the first segment
\* whose value is not an object, or nowhere (every segment is an object)
Walk(d, path, i) ==
    IF path = <<>> THEN [kind |-> "alldict", at |-> i - 1]
    ELSE IF Head(path) \notin DOMAIN d THEN [kind |-> "missing", at |-> i]
    ELSE IF d[Head(path)].t = "dict" THEN Walk(d[Head(path)].v, Tail(path), i + 1)
    ELSE [kind |-> "leaf", at |-> i]

\* the path names an existing leaf that is not an object
OnLeaf(doc, path) == Walk(doc, path, 1) = [kind |-> "leaf", at |-> Len(path)]

RECURSIVE PutAt(_, _, _)
\* the document with the value at the path replaced and nothing else changed
PutAt(d, path, v) ==
    IF Len(path) = 1 THEN Put(d, path[1], v)
    ELSE Put(d, Head(path), D(PutAt(d[Head(path)].v, Tail(path), v)))

Strip(doc) == [k \in DOMAIN doc \ {COSA_VER_STAMP} |-> doc[k]]

\* the last step of a write() of the document the last set() left, that set()
\* having addressed an existing leaf of the document as it was loaded
SetThenWritten ==
    /\ Moved("A", "w_read", "idle")
    /\ slast # NoSet
    /\ OnLeaf(slast.before, slast.path)
    /\ mem["A"] = slast.after
    /\ Strip(slast.before) = Strip(disk_data["A"])

SetOnLeaf(path, v) == SetPath("A", path, v) /\ OnLeaf(mem["A"], path)

\* C18 as stated: after set(path, v) on an existing non-object leaf get(path)
\* returns v and nothing else has changed; after write() and the reload
\* get(path) still returns v and only that leaf and the stamp have changed.
C18_SetPersists ==
    [][/\ \A path \in Paths, v \in Values :
            SetOnLeaf(path, v) =>
                /\ gret'.err = "none"
                /\ get(mem'["A"], path, Null) = [err |-> "none", v |-> v]
                /\ mem'["A"] = PutAt(mem["A"], path, v)
       /\ SetThenWritten =>
            /\ get(mem'["A"], slast.path, Null) = [err |-> "none", v |-> slast.val]
            /\ Strip(mem'["A"]) = Strip(PutAt(slast.before, slast.path, slast.val))]_vars

\* what write() persists at a leaf set to val: when the old and the new value
\* are both sequences and the stamps on disk and in memory differ, the merge
\* extends val by the old elements it does not hold
Persisted(old, val, disk, memdoc) ==
    IF old.t = "list" /\ val.t = "list" /\ StampOf(disk) < StampOf(memdoc)
    THEN L(merge_lists(val.v, old.v))
    ELSE val

\* C18 amended: as C18, except that a sequence set over a sequence is
\* persisted merged with the old one when the stamps differ.
C18_SetPersistsMerged ==
    [][/\ \A path \in Paths, v \in Values :
            SetOnLeaf(path, v) =>
                /\ gret'.err = "none"
                /\ get(mem'["A"], path, Null) = [err |-> "none", v |-> v]
                /\ mem'["A"] = PutAt(mem["A"], path, v)
       /\ SetThenWritten =>
            LET old == get(slast.before, slast.path, Null).v
                kept == Persisted(old, slast.val, disk_data["A"], mem["A"])
            IN  /\ get(mem'["A"], slast.path, Null) = [err |-> "none", v |-> kept]
                /\ Strip(mem'["A"]) = Strip(PutAt(slast.before, slast.path, kept))]_vars

\* C18 witness: set(['pkgs'], ['y']) over ['x'] has been written and
\* reloaded as ['y', 'x']
C18_Witness ==
    /\ pc["A"] = "idle" /\ clock["A"] > MTime
    /\ slast.path = <<"pkgs">> /\ slast.val = L(<<S("y")>>)
    /\ Strip(slast.before) = Strip(SetDoc)
    /\ mem["A"] = Put(PutAt(slast.before, <<"pkgs">>, L(<<S("y"), S("x")>>)),
                      COSA_VER_STAMP, N(clock["A"]))

\* C19: set(path, v) with a multi-element path whose first segment that is
\* not a nested object is segment i (the first one included) returns, and
\* the document then holds v at segments 1..i.
C19_SetAtFirstLeaf ==
    [][\A path \in Paths, v \in Values :
          (/\ SetPath("A", path, v)
           /\ Len(path) >= 2
           /\ Walk(mem["A"], path, 1).kind = "leaf") =>
              /\ gret'.err = "none"
              /\ get(mem'["A"], SubSeq(path, 1, Walk(mem["A"], path, 1).at), Null)
                    = [err |-> "none", v |-> v]]_vars

\* C20: set(path, v) with a multi-element path that reaches a missing key,
\* or whose every segment is a nested object, raises and leaves the document
\* as it was.
C20_UnsettableFails ==
    [][\A path \in Paths, v \in Values :
          (/\ SetPath("A", path, v)
           /\ Len(path) >= 2
           /\ Walk(mem["A"], path, 1).kind \in {"missing", "alldict"}) =>
              /\ gret'.err \in {"KeyError", "Exception"}
              /\ mem'["A"] = mem["A"]]_vars

\* C20 witness: set(['i', 'donot', 'exist'], v) has raised
C20_Witness ==
    /\ pc["A"] = "idle"
    /\ slast.path = <<"i", "donot", "exist">>
    /\ gret.err = "KeyError"
    /\ mem["A"] = slast.before /\ slast.before # Empty

(***************************************************************************)
(* get_build_dir (SpecBuilds)                                              *)
(***************************************************************************)
\* a get_build_dir(b, a) for an id that is neither 'latest' nor in the index
UnknownDir(p, b, a) ==
    /\ GetBuildDir(p, b, a)
    /\ b # "latest"
    /\ ~has(bdata[p], b)

\* C21 as stated: get_build_dir with a build id that is neither 'latest' nor
\* in the index raises an error instead of returning a path.
C21_UnknownIdRaises ==
    [][\A c \in DirCalls :
          UnknownDir("A", c[1], c[2]) => berr'["A"] # "none" /\ bret'["A"] = "none"]_vars

\* C21: get_build_dir never looks an id up: for every id other than 'latest',
\* in the index or not, it returns builds/<id>/<arch> (the current
\* architecture when none is given); 'latest' is the first record's id, and
\* raises IndexError on an empty index.
C21_DirIsJoinedPath ==
    [][\A c \in DirCalls :
          GetBuildDir("A", c[1], c[2]) =>
             LET b == c[1]
                 arch == IF c[2] = "none" THEN BaseArch ELSE c[2] IN
             IF b # "latest"
             THEN berr'["A"] = "none" /\ bret'["A"] = "builds/" \o b \o "/" \o arch
             ELSE IF bdata["A"].builds = <<>>
             THEN berr'["A"] = "IndexError" /\ bret'["A"] = "none"
             ELSE /\ berr'["A"] = "none"
                  /\ bret'["A"] = "builds/" \o bdata["A"].builds[1].id \o "/" \o arch]_vars

\* a path was returned for build b1, which the index does not hold
C21_Witness ==
    /\ bcall["A"] = "get_build_dir"
    /\ berr["A"] = "none"
    /\ bret["A"] = "builds/b1/aarch64"
    /\ ~has(bdata["A"], "b1")

(***************************************************************************)
(* One job writing meta.json next to a process that keeps the build index  *)
(***************************************************************************)
\* a workdir whose index holds build b1, and the meta.json of that build
InitLocks ==
    /\ files = (MetaPath :> [data |-> BaseDoc, pending |-> "none"]) @@
               (BuildsPath :>
                  [data |-> [ver |-> <<1, 0, 0>>,
                             builds |-> <<BuildRecord("b1", "x86_64")>>,
                             timestamp |-> "T0"],
                   pending |-> "none"])
    /\ JobsIdle({0}, [p \in Procs |-> TRUE])
    /\ PureIdle

\* job A registers its image in meta.json; process B opens the index,
\* registers b2 and flushes
NextLocks ==
    \/ Job("A")
    \/ \E an \in {"none", Artifact("A")} : WriteBegin("A", an, FALSE)
    \/ BuildsJob("B")
    \/ InsertBuild("B", "b2", "none")

SpecLocks == InitLocks /\ [][NextLocks]_vars

\* the paths of one workdir
WorkPaths == {MetaPath, BuildsPath} \cup {SidePath(Artifact(p)) : p \in Procs}

\* some process is inside the locked region of a write_json on builds.json
InFlush == \E q \in Procs : bpc[q] \in {"f_rename", "f_unlock"}

Unlink ==
    /\ MetaPath \in DOMAIN files
    /\ files[MetaPath].pending = "none"
    /\ files' = [k \in DOMAIN files \ {MetaPath} |-> files[k]]
    /\ UNCHANGED <<lock, mvars, committed, pvars>>

NextAbsent == Next \/ Unlink

SpecAbsent == Init /\ [][NextAbsent]_vars

\* write_json, called with a merge function, takes the lock of a path that
\* holds no file
LockAbsent(p) ==
    /\ WriteLock(p)
    /\ wmerge[p]
    /\ wpath[p] \notin DOMAIN files

\* C23: a write with a merge function to a path that holds no file raises
\* nothing: the on-disk copy counts as the empty document, and the document
\* given to the file is the in-memory one, key for key, with a new stamp;
\* the rename puts that document at the path.
C23_AbsentIsEmpty ==
    [][\A p \in Procs :
          /\ LockAbsent(p) =>
                /\ pc'[p] = "w_rename"
                /\ err'[p] = err[p]
                /\ disk_data'[p] = Empty
                /\ Strip(data'[p]) = Strip(mem[p])
                /\ Get(data'[p], COSA_VER_STAMP) = N(clock'[p])
                /\ clock'[p] > clock[p]
          /\ (WriteRename(p) /\ wmerge[p] /\ wpath[p] \notin DOMAIN files) =>
                /\ wpath[p] \in DOMAIN files'
                /\ files'[wpath[p]].data = data[p]]_vars

\* job A's write has put its document, image included, where no file was
C23_Witness ==
    /\ pc["A"] = "w_unlock"
    /\ wmerge["A"]
    /\ disk_data["A"] = Empty
    /\ MetaPath \in DOMAIN files
    /\ files[MetaPath].data = data["A"]
    /\ HasImage(data["A"], "qemu")
    /\ Strip(data["A"]) = Strip(mem["A"])

(***************************************************************************)
(* json.dump / json.load: a document as the text of its file, token by     *)
(* token, and write_json followed by load_json on a path of its own        *)
(***************************************************************************)
\* one token of JSON text: a string, a number, a literal or a punctuation mark
Tok(k, s, n) == [k |-> k, s |-> s, n |-> n]
Punct(c) == Tok("punct", c, 0)

\* the keys of a dict in the order json.dump meets them
RECURSIVE KeyOrder(_)
KeyOrder(ks) ==
    IF ks = {} THEN <<>>
    ELSE LET k == CHOOSE k \in ks : TRUE IN <<k>> \o KeyOrder(ks \ {k})

\* a json.dump that writes any value as one opaque string
json_dump_str(val) == <<Tok("str", "obj", 0)>>

RECURSIVE json_dump(_), DumpItems(_), DumpMembers(_, _)
\* json.dump(data, f): the text of a value
json_dump(val) ==
    CASE val.t = "dict" ->
           <<Punct("{")>> \o DumpMembers(val.v, KeyOrder(DOMAIN val.v)) \o <<Punct("}")>>
      [] val.t = "list" -> <<Punct("[")>> \o DumpItems(val.v) \o <<Punct("]")>>
      [] val.t = "str"  -> <<Tok("str", val.v, 0)>>
      [] val.t = "num"  -> <<Tok("num", "", val.v)>>
      [] val.t = "bool" -> <<Tok("lit", IF val.v THEN "true" ELSE "false", 0)>>
      [] OTHER          -> <<Tok("lit", "null", 0)>>
DumpItems(q) ==
    IF q = <<>> THEN <<>>
    ELSE json_dump(Head(q)) \o
         (IF Len(q) > 1 THEN <<Punct(",")>> \o DumpItems(Tail(q)) ELSE <<>>)
DumpMembers(d, ks) ==
    IF ks = <<>> THEN <<>>
    ELSE <<Tok("str", Head(ks), 0), Punct(":")>> \o json_dump(d[Head(ks)]) \o
         (IF Len(ks) > 1 THEN <<Punct(",")>> \o DumpMembers(d, Tail(ks)) ELSE <<>>)

\* what the decoder returns: an error, or a value and the text left over
Parsed(val, rest) == [err |-> "none", v |-> val, rest |-> rest]
BadJson == [err |-> "ValueError", v |-> Null, rest |-> <<>>]

RECURSIVE ParseValue(_), ParseItems(_, _), ParseMembers(_, _)
ParseValue(ts) ==
    IF ts = <<>> THEN BadJson
    ELSE LET h == Head(ts)
             r == Tail(ts)
         IN CASE h.k = "str" -> Parsed(S(h.s), r)
              [] h.k = "num" -> Parsed(N(h.n), r)
              [] h.k = "lit" ->
                   Parsed(IF h.s = "true" THEN B(TRUE)
                          ELSE IF h.s = "false" THEN B(FALSE) ELSE Null, r)
              [] h = Punct("[") ->
                   IF r # <<>> /\ Head(r) = Punct("]") THEN Parsed(L(<<>>), Tail(r))
                   ELSE ParseItems(r, <<>>)
              [] h = Punct("{") ->
                   IF r # <<>> /\ Head(r) = Punct("}") THEN Parsed(D(Empty), Tail(r))
                   ELSE ParseMembers(r, Empty)
              [] OTHER -> BadJson
ParseItems(ts, acc) ==
    LET e == ParseValue(ts) IN
      IF e.err # "none" \/ e.rest = <<>> THEN BadJson
      ELSE IF Head(e.rest) = Punct(",")
      THEN ParseItems(Tail(e.rest), Append(acc, e.v))
      ELSE IF Head(e.rest) = Punct("]")
      THEN Parsed(L(Append(acc, e.v)), Tail(e.rest))
      ELSE BadJson
ParseMembers(ts, acc) ==
    IF Len(ts) < 3 \/ ts[1].k # "str" \/ ts[2] # Punct(":") THEN BadJson
    ELSE LET e == ParseValue(SubSeq(ts, 3, Len(ts))) IN
      IF e.err # "none" \/ e.rest = <<>> THEN BadJson
      ELSE IF Head(e.rest) = Punct(",")
      THEN ParseMembers(Tail(e.rest), Put(acc, ts[1].s, e.v))
      ELSE IF Head(e.rest) = Punct("}")
      THEN Parsed(D(Put(acc, ts[1].s, e.v)), Tail(e.rest))
      ELSE BadJson

\* json.load(f): the value of a text, ValueError for what is no JSON text
json_load(ts) ==
    LET r == ParseValue(ts) IN
      IF r.err # "none" \/ r.rest # <<>> THEN [err |-> "ValueError", doc |-> Null]
      ELSE [err |-> "none", doc |-> r.v]

\* values that differ only in their JSON type, empty and nested containers
JsonVals ==
    {Null, B(TRUE), B(FALSE), N(0), N(1), S(""), S("1"), S("true"), S("null"),
     L(<<>>), D(Empty), L(<<S("data")>>), L(<<L(<<>>)>>), D("k" :> D(Empty)),
     L(<<N(1), S("1"), B(TRUE), Null, L(<<S("a"), S("a")>>), D("a" :> Null)>>)}

JsonDocs ==
    DocSet \cup {("test" :> v1) @@ ("z" :> v2) : v1 \in JsonVals, v2 \in {Null, S("{")}}

\* no file at the path yet
InitJson ==
    /\ InitWith(BaseDoc, {0})
    /\ px \in JsonDocs
    /\ py = Empty
    /\ pnow = 0
    /\ pres = Raise("pending")
    /\ pdisk = <<>>
    /\ OthersIdle

\* write_json(path, px): the text json.dump wrote is the file once the call
\* has returned
WriteJson ==
    /\ pdisk = <<>>
    /\ pdisk' = json_dump(D(px))
    /\ UNCHANGED <<px, py, pnow, pres, cvars, ovars>>

\* load_json(path)
LoadJson ==
    /\ pdisk # <<>>
    /\ pres.err = "pending"
    /\ pres' = json_load(pdisk)
    /\ UNCHANGED <<px, py, pnow, pdisk, cvars, ovars>>

SpecJson == InitJson /\ [][WriteJson \/ LoadJson]_vars

\* C24: load_json(path) after write_json(path, D) without a merge function
\* and without another writer raises nothing and returns a document equal
\* to D, at every level.
C24_RoundTrip == pres.err # "pending" => pres = Ok(D(px))

\* a document whose list holds a number, its digits as a string, a boolean,
\* null and nested containers came back
C24_Witness ==
    /\ pres = Ok(D(px))
    /\ "test" \in DOMAIN px
    /\ px["test"].t = "list"
    /\ Len(px["test"].v) = 6
    /\ Get(px, "z") = S("{")

(***************************************************************************)
(* Builds() on a new workdir (SpecBuilds)                                  *)
(***************************************************************************)
\* {'schema-version': "1.0.0", 'builds': []}
FreshIndex == [ver |-> <<1, 0, 0>>, builds |-> <<>>, timestamp |-> "none"]

\* C25: Builds() on a workdir with builds/ and without builds.json makes the
\* index {schema-version 1.0.0, no builds} and writes it to builds.json
\* before the constructor returns; without builds/ the constructor raises
\* and no file is ever created.
C25_Bootstrap ==
    [][/\ ~bdir => BuildsPath \notin DOMAIN files'
       /\ \A p \in Procs :
            /\ (BOpen(p) /\ ~bdir) =>
                  bpc'[p] = "failed" /\ berr'[p] = "Exception" /\ files' = files
            /\ (BOpen(p) /\ bdir /\ BuildsPath \notin DOMAIN files) =>
                  bdata'[p] = FreshIndex /\ bpc'[p] = "f_lock" /\ bcall'[p] = "init"
            /\ (FlushRename(p) /\ bcall[p] = "init") =>
                  files'[BuildsPath].data = FreshIndex
            /\ (FlushReturn(p) /\ bcall[p] = "init") =>
                  /\ bpc'[p] = "open"
                  /\ berr'[p] = "none"
                  /\ bdata'[p] = FreshIndex
                  /\ BuildsPath \in DOMAIN files']_vars

\* the constructor has returned and builds.json holds the new index
C25_Witness ==
    /\ bpc["A"] = "open"
    /\ bdata["A"] = FreshIndex
    /\ BuildsPath \in DOMAIN files
    /\ files[BuildsPath] = [data |-> FreshIndex, pending |-> "none"]

(***************************************************************************)
(* The identity guard and the stale writer (SpecMerge)                     *)
(***************************************************************************)
\* the identity fields, the commit of cosa_git among them, and their values
IdKeys == IdentityFields \cup {cosa_git}
IdValue(d, i) == IF i = cosa_git THEN CosaCommit(d) ELSE Get(d, i)

\* x defines an identity field that y lacks or holds with another value
DiskDefinesDiffer(x, y) ==
    \E i \in IdKeys : IdValue(x, i) # Null /\ IdValue(x, i) # IdValue(y, i)

\* C26 as stated: merge_meta raises the merge-conflict error only when both
\* documents define an identity field with different values; a field that
\* only one document defines, whichever it is, lets the merge succeed.
C26_TwoSidedGuard ==
    Applied => (pres.err = "COSAMergeError" => BothDefineDiffer(px, py))

\* C26 amended: the guard looks at the on-disk document x. merge_meta raises
\* only when x defines an identity field that the in-memory document y lacks
\* or holds with another value; it succeeds when x defines none (fields that
\* only y defines are accepted); and it raises when x defines a field with a
\* non-empty value that y does not define.
C26_DiskSideGuard ==
    Applied =>
        /\ pres.err = "COSAMergeError" => DiskDefinesDiffer(px, py)
        /\ (\A i \in IdKeys : IdValue(px, i) = Null) => pres.err = "none"
        /\ (\E i \in IdKeys :
              Truthy(IdValue(px, i)) /\ IdValue(py, i) = Null)
             => pres.err = "COSAMergeError"

\* only the on-disk document defines ostree-commit, no field is defined by
\* both, and the merge was refused
C26_Witness ==
    /\ Applied
    /\ pres.err = "COSAMergeError"
    /\ "ostree-commit" \in DOMAIN px
    /\ \A i \in IdKeys : IdValue(py, i) = Null
    /\ pdisk = px

\* the keys of the on-disk document whose value is neither a nested object
\* nor a sequence
PlainKeys(x) == {k \in DOMAIN x : x[k].t \notin {"dict", "list"}}

\* C27 as stated: when the on-disk stamp is higher than the in-memory one the
\* write succeeds, and every key on disk whose value is neither a nested
\* object nor a sequence keeps its on-disk value in the result.
C27_StaleKeepsDisk ==
    (Applied /\ StampOf(px) > StampOf(py)) =>
        /\ pres.err = "none"
        /\ \A k \in PlainKeys(px) : pres.doc[k] = px[k]

\* C27 amended: when the on-disk stamp is higher than the in-memory one, the
\* write either is refused by the identity guard (the on-disk document
\* defines an identity field that the in-memory one lacks or holds with
\* another value) or succeeds; when it succeeds, every key on disk other
\* than the stamp whose value is neither a nested object nor a sequence
\* keeps its on-disk value, and the stamp is the time of the merge.
C27_StaleKeepsDiskContent ==
    (Applied /\ StampOf(px) > StampOf(py)) =>
        /\ pres.err \in {"none", "COSAMergeError"}
        /\ pres.err = "COSAMergeError" => DiskDefinesDiffer(px, py)
        /\ pres.err = "none" =>
              /\ \A k \in PlainKeys(px) \ {COSA_VER_STAMP} : pres.doc[k] = px[k]
              /\ pres.doc[COSA_VER_STAMP] = N(pnow)
              /\ pdisk = pres.doc

\* the stale in-memory document holds another name, and a list where the
\* disk holds a string
C27_Witness ==
    /\ Applied /\ pres.err = "none" /\ StampOf(px) > StampOf(py)
    /\ "name" \in DOMAIN px /\ "name" \in DOMAIN py /\ px["name"] # py["name"]
    /\ "pkgs" \in DOMAIN px /\ "pkgs" \in DOMAIN py
    /\ px["pkgs"].t = "str" /\ py["pkgs"].t = "list"
    /\ pdisk["name"] = px["name"] /\ pdisk["pkgs"] = px["pkgs"]

(***************************************************************************)
(* A validated job next to a job opened with schema=None that stores a     *)
(* value the schema rejects                                                *)
(***************************************************************************)
\* m["buildid"] = 0: a value of the wrong type
RetypeBuildid(p) ==
    /\ "buildid" \in DOMAIN mem[p]
    /\ Mutate(p, Put(mem[p], "buildid", N(0)))

NextValid == Next \/ RetypeBuildid("B")

SpecValid == InitSchema /\ [][NextValid]_vars

\* C28: with a schema configured, every document that write() places at
\* meta.json satisfies the schema: what the merge returned is validated
\* before the rename, and a merge result that violates the schema leaves
\* meta.json as it was.
C28_OnlyValidPersisted ==
    [][\A p \in Procs :
          (validator[p] /\ WriteRename(p) /\ wpath[p] = MetaPath) =>
              SchemaValid(files'[MetaPath].data)]_vars

(***************************************************************************)
(* merge_dicts on its own, for nested documents x and y drawn from a       *)
(* bounded set                                                             *)
(***************************************************************************)
\* sequences that overlap, and sequences with repeated elements
ListOpts ==
    {<<>>, <<S("a")>>, <<S("b"), S("a")>>, <<S("a"), S("c"), S("c")>>,
     <<S("c"), S("b"), S("c")>>}

\* objects of the second level, some with an object or a sequence inside
InnerOpts ==
    {Part("k", v) @@ Part("l", w) :
        v \in {Null, S("s"), L(<<S("a")>>), L(<<S("b"), S("b"), S("a")>>),
               D("m" :> S("s")), D(("m" :> S("t")) @@ ("n" :> S("t")))},
        w \in {Null, S("t")}}

NestDocs ==
    {Part("a", v) @@ Part("b", w) :
        v \in {Null, S("s"), S("t")} \cup {L(q) : q \in ListOpts}
                 \cup {D(i) : i \in InnerOpts},
        w \in {Null, S("s"), L(<<S("b")>>)}}

InitDicts ==
    /\ InitWith(BaseDoc, {0})
    /\ px \in NestDocs
    /\ py \in NestDocs
    /\ pnow = 0
    /\ pres = Raise("pending")
    /\ pdisk = Empty
    /\ OthersIdle

\* ret = merge_dicts(x, y)
ApplyDicts ==
    /\ pres.err = "pending"
    /\ pres' = Ok(merge_dicts(px, py))
    /\ UNCHANGED <<px, py, pnow, pdisk, cvars, ovars>>

SpecDicts == InitDicts /\ [][ApplyDicts]_vars

BothDicts(x, y, k) == x[k].t = "dict" /\ y[k].t = "dict"
BothLists(x, y, k) == x[k].t = "list" /\ y[k].t = "list"

\* r follows the dict-merge rule for x and y, at this level and below
RECURSIVE DictRule(_, _, _)
DictRule(x, y, r) ==
    /\ DOMAIN r = DOMAIN x \cup DOMAIN y
    /\ \A k \in DOMAIN x \cup DOMAIN y :
          IF k \notin DOMAIN y THEN r[k] = x[k]
          ELSE IF k \notin DOMAIN x THEN r[k] = y[k]
          ELSE IF BothDicts(x, y, k)
          THEN r[k].t = "dict" /\ DictRule(x[k].v, y[k].v, r[k].v)
          ELSE IF BothLists(x, y, k) THEN r[k].t = "list"
          ELSE r[k] = x[k]

\* C29: merge_dicts(x, y) has exactly the keys of x and of y at every level;
\* a key of one side only has that side's value; a key whose two values are
\* nested objects has their recursive merge; any other key of both sides
\* that is not a pair of sequences has x's value.
C29_DictRule == Applied => (pres.err = "none" /\ DictRule(px, py, pres.doc))

\* objects two levels deep were merged, next to a key of one side only and a
\* key whose types differ
C29_Witness ==
    /\ Applied
    /\ "a" \in DOMAIN px /\ "a" \in DOMAIN py /\ BothDicts(px, py, "a")
    /\ "k" \in DOMAIN px["a"].v /\ "k" \in DOMAIN py["a"].v
    /\ BothDicts(px["a"].v, py["a"].v, "k")
    /\ px["a"].v["k"] # py["a"].v["k"]
    /\ "l" \in DOMAIN py["a"].v /\ "l" \notin DOMAIN px["a"].v
    /\ "b" \in DOMAIN px /\ "b" \in DOMAIN py /\ px["b"].t # py["b"].t
    /\ pres.doc["a"].v["k"].v = ("m" :> px["a"].v["k"].v["m"]) @@ ("n" :> S("t"))

\* how often e occurs in q
Count(e, q) == Cardinality({i \in 1..Len(q) : q[i] = e})

\* zs is xs followed by the elements of ys that xs does not hold, in the
\* order of ys; nothing xs holds is added again, and no element occurs more
\* often in zs than in the sequence it comes from
ListRule(xs, ys, zs) ==
    /\ Len(zs) >= Len(xs)
    /\ SubSeq(zs, 1, Len(xs)) = xs
    /\ LET added == SubSeq(zs, Len(xs) + 1, Len(zs)) IN
          /\ \A i \in 1..Len(added) : ~InSeq(added[i], xs)
          /\ \E f \in [1..Len(added) -> 1..Len(ys)] :
                /\ \A i \in 1..Len(added) : ys[f[i]] = added[i]
                /\ \A i, j \in 1..Len(added) : i < j => f[i] < f[j]
                /\ \A j \in 1..Len(ys) :
                      ~InSeq(ys[j], xs) => \E i \in 1..Len(added) : f[i] = j
    /\ \A i \in 1..Len(zs) :
          Count(zs[i], zs) = IF InSeq(zs[i], xs) THEN Count(zs[i], xs)
                             ELSE Count(zs[i], ys)

\* the list-merge rule at every key of both sides that holds two sequences,
\* at this level and below
RECURSIVE ListsRule(_, _, _)
ListsRule(x, y, r) ==
    \A k \in DOMAIN x \cap DOMAIN y :
        /\ BothLists(x, y, k) =>
              k \in DOMAIN r /\ r[k].t = "list" /\ ListRule(x[k].v, y[k].v, r[k].v)
        /\ BothDicts(x, y, k) =>
              k \in DOMAIN r /\ r[k].t = "dict" /\ ListsRule(x[k].v, y[k].v, r[k].v)

InDelayedWrite(p) ==
    /\ pc[p] \in {"w_lock", "w_rename", "w_unlock", "w_return", "w_read"}
    /\ wpath[p] # MetaPath

\* C31: a non-final write() in delayed-merge mode never waits for the lock of
\* meta.json: whoever holds that lock, each of its steps can be taken.
C31_DelayedIndependent ==
    \A p \in Procs :
        InDelayedWrite(p) =>
            ENABLED (WriteLock(p) \/ WriteRename(p) \/ WriteUnlock(p)
                       \/ WriteReturn(p) \/ WriteRead(p))

(***************************************************************************)
(* A process that stops while it holds a lock, and the lifetime of the     *)
(* lock: Lock(lock_path, lifetime=LOCK_DEFAULT_LIFETIME), 52 weeks         *)
(***************************************************************************)
\* a lock that may be broken at any time
LifetimeOver_now(lp) == TRUE

\* the lifetime the holder declared when it took the lock is over
LifetimeOver(lp) == lp \in expired

\* the process stops inside the locked region of write_json and never runs
\* again
Crash(p) ==
    /\ p \notin crashed
    /\ pc[p] \in {"w_rename", "w_unlock"}
    /\ crashed' = crashed \cup {p}
    /\ UNCHANGED <<cvars, purevars, bvars, svars, expired, token, tpc, ttok>>

\* LOCK_DEFAULT_LIFETIME passes after a holder that stopped took the lock
Expire(lp) ==
    /\ lp \in DOMAIN lock
    /\ lock[lp] \in crashed
    /\ lp \notin expired
    /\ expired' = expired \cup {lp}
    /\ UNCHANGED <<cvars, purevars, bvars, svars, crashed, token, tpc, ttok>>

\* Lock.lock() of a process that waits: a lock whose lifetime is over is
\* broken, and the next attempt finds it free
BreakLock(q, lp) ==
    /\ q \notin crashed
    /\ lp \in DOMAIN lock
    /\ lock[lp] # q
    /\ LifetimeOver(lp)
    /\ lock' = [k \in DOMAIN lock \ {lp} |-> lock[k]]
    /\ expired' = expired \ {lp}
    /\ UNCHANGED <<files, mvars, purevars, bvars, svars, crashed, token, tpc, ttok>>

InitCrash == InitWith(BaseDoc, {0}) /\ PureIdle

\* the steps of the jobs that still run
NextCrash ==
    \/ \E p \in Procs :
          /\ p \notin crashed
          /\ \/ Job(p)
             \/ \E an \in {"none", Artifact(p)} : WriteBegin(p, an, FALSE)
    \/ \E p \in Procs : Crash(p)
    \/ \E lp \in DOMAIN lock : Expire(lp)
    \/ \E q \in Procs, lp \in DOMAIN lock : BreakLock(q, lp)

SpecCrash == InitCrash /\ [][NextCrash]_vars

\* a process that stopped holds the lock lp
HeldByCrashed(lp) == lp \in DOMAIN lock /\ lock[lp] \in crashed

\* process q reads or writes meta.json under its lock in this step
TakesMetaLock(q) ==
    \/ Open(q)
    \/ Read(q)
    \/ WriteRead(q)
    \/ WriteLock(q) /\ wpath[q] = MetaPath

\* C32 as stated: the lock of a process that stopped while holding it stays
\* held from then on, and nobody else reads or writes the document.
C32_HeldForever ==
    [][\A lp \in DOMAIN lock :
          HeldByCrashed(lp) => (lp \in DOMAIN lock' /\ lock'[lp] = lock[lp])]_vars

\* C32 amended: the lock of a process that stopped while holding it stays
\* held, and every exclusive read or write of the document by another
\* process waits, for as long as the lifetime of the lock (52 weeks) is not
\* over; once it is over, a process that waits breaks the lock and takes it.
C32_HeldForLifetime ==
    [][\A lp \in DOMAIN lock :
          (HeldByCrashed(lp) /\ lp \notin expired) =>
             /\ lp \in DOMAIN lock' /\ lock'[lp] = lock[lp]
             /\ lp = get_lock_path(MetaPath) =>
                   \A q \in Procs : ~TakesMetaLock(q)]_vars

\* job A stopped holding the lock of meta.json, its lifetime is not over,
\* and job B waits for it
C32_Witness ==
    /\ "A" \in crashed
    /\ HeldByCrashed(get_lock_path(MetaPath))
    /\ get_lock_path(MetaPath) \notin expired
    /\ pc["B"] = "w_lock"
    /\ wpath["B"] = MetaPath


(***************************************************************************)
(* Contention under fair scheduling: a process inside write() keeps        *)
(* running, and Lock.lock() polls until the lock is free                   *)
(***************************************************************************)
\* every step of a write that has begun is taken in the end; the lock is
\* asked for again and again, so a lock that is free infinitely often is
\* obtained
Fairness ==
    \A p \in Procs :
        /\ SF_vars(WriteLock(p))
        /\ WF_vars(WriteRename(p))
        /\ WF_vars(WriteUnlock(p))
        /\ WF_vars(WriteReturn(p))
        /\ SF_vars(WriteRead(p))

SpecFair == Init /\ [][Next]_vars /\ Fairness

\* write_json of p waits for a lock that another process holds
Blocked(p) ==
    /\ pc[p] = "w_lock"
    /\ ~LockFree(get_lock_path(wpath[p]))

\* p is inside the `with Lock(...)` block of write_json
Acquired(p) ==
    /\ get_lock_path(wpath[p]) \in DOMAIN lock
    /\ lock[get_lock_path(wpath[p])] = p

\* C33: a write that finds the lock held waits and, once the holders have
\* released it, obtains the lock and goes on; the wait never ends in an
\* error.
C33_BlockedCompletes ==
    \A p \in Procs : Blocked(p) ~> Acquired(p)

\* a write that finds the lock held leaves the wait in the end, with the
\* lock or with an exception raised by the re-read of the file
C33_BlockedLeaves ==
    \A p \in Procs : Blocked(p) ~> (Acquired(p) \/ pc[p] = "failed")


(***************************************************************************)
(* The exit paths of write_json and load_json: a merge conflict, a file    *)
(* that is not there, a file that is not JSON                              *)
(***************************************************************************)
\* m["ostree-commit"] = "c1": the job records the commit of its build
SetCommit(p) ==
    /\ "ostree-commit" \notin DOMAIN mem[p]
    /\ Mutate(p, Put(mem[p], "ostree-commit", S("c1")))

\* the file may be removed, and job B may record an identity field that
\* job A's copy of the document does not have
NextErrors == Next \/ Unlink \/ SetCommit("B")

\* one build directory, both jobs with the schema and the same clock
InitErrors == InitWith(BaseDoc, {0}) /\ PureIdle

SpecErrors == InitErrors /\ [][NextErrors]_vars

InMetaCall(p) == pc[p] \in {"w_lock", "w_rename", "w_unlock", "w_return", "w_read"}

\* the process is inside a call of Builds.flush
InBuildsCall(p) == bpc[p] \in {"f_lock", "f_rename", "f_unlock", "f_return"}

\* a process runs one call at a time: the steps of a metadata job while no
\* flush is under way, the steps of the index while no write is under way
NextBoth ==
    \E p \in Procs :
        \/ /\ ~InBuildsCall(p)
           /\ \/ Open(p)
              \/ WriteBegin(p, Artifact(p), FALSE)
              \/ WriteLock(p)
              \/ WriteRename(p)
              \/ WriteUnlock(p)
              \/ WriteReturn(p)
              \/ WriteRead(p)
        \/ /\ ~InMetaCall(p)
           /\ BuildsJob(p)

SpecBoth == InitLocks /\ [][NextBoth]_vars

\* the locks process p holds
Held(p) == {lp \in DOMAIN lock : lock[lp] = p}

\* the next step of p asks for a lock
AsksForLock(p) ==
    \/ pc[p] \in {"start", "failed", "idle", "w_lock", "w_read"} /\ ~InBuildsCall(p)
    \/ bpc[p] \in {"closed", "failed", "f_lock"} /\ ~InMetaCall(p)

\* C35: a process holds at most one lock, asks for a lock only while it
\* holds none, and a process that holds a lock can always take its next
\* step: nobody waits while holding, so there is no cycle of waits.
C35_NoHoldAndWait ==
    \A p \in Procs :
        /\ Cardinality(Held(p)) <= 1
        /\ AsksForLock(p) => Held(p) = {}
        /\ Held(p) # {} =>
              ENABLED (WriteRename(p) \/ WriteUnlock(p)
                         \/ FlushRename(p) \/ FlushUnlock(p))

\* A is about to re-read meta.json at the end of write() while B holds the
\* lock of builds.json, and A has flushed the index before
C35_Witness ==
    /\ pc["A"] = "w_read"
    /\ Held("A") = {}
    /\ Held("B") = {get_lock_path(BuildsPath)}
    /\ BuildsPath \in DOMAIN files
    /\ bpc["A"] = "open"
    /\ bdata["A"].timestamp = "T1"


(***************************************************************************)
(* What write() leaves in memory (SpecDelayed)                             *)
(***************************************************************************)
\* C36: when write() returns, the document in memory is the content of the
\* canonical meta.json at that moment, whichever file was written. A delayed
\* write puts the staged document, with the stamp write() gave it, into the
\* side-file and leaves meta.json as it was, so on return memory has the
\* canonical document and not the staged one.
C36_WriteEndsReloaded ==
    [][\A p \in Procs :
          /\ Moved(p, "w_read", "idle") => mem'[p] = files[MetaPath].data
          /\ (Moved(p, "w_rename", "w_unlock") /\ wpath[p] # MetaPath) =>
                /\ files'[wpath[p]].data = data[p]
                /\ data[p] = mem[p]
                /\ StampOf(data[p]) = clock[p]
                /\ files'[MetaPath] = files[MetaPath]]_vars

\* B's delayed write has returned: its image and its stamp are in the
\* side-file, and B's document is the canonical one, without them
C36_Witness ==
    /\ pc["B"] = "idle"
    /\ SidePath("aws") \in DOMAIN files
    /\ HasImage(files[SidePath("aws")].data, "aws")
    /\ ~HasImage(mem["B"], "aws")
    /\ mem["B"] = files[MetaPath].data
    /\ StampOf(files[SidePath("aws")].data) # StampOf(mem["B"])


(***************************************************************************)
(* What insert_build changes (SpecBuilds)                                  *)
(***************************************************************************)
\* C37: an insert_build that returns changes the list of builds in memory
\* and nothing else. For an id the index holds, the first record with that id
\* gets the architecture appended and every record stays where it was; for a
\* new id one record is put at position 0 and the others follow unchanged.
\* builds.json and the locks are untouched.
C37_InsertFrame ==
    [][\A p \in Procs, b \in Ids, a \in ArchArgs :
          (bcall'[p] = "insert_build" /\ berr'[p] = "none" /\ InsertBuild(p, b, a)) =>
             LET old == bdata[p].builds
                 new == bdata'[p].builds IN
             /\ files' = files /\ lock' = lock
             /\ bdata'[p] = [bdata[p] EXCEPT !.builds = new]
             /\ \A q \in Procs \ {p} : bdata'[q] = bdata[q]
             /\ IF has(bdata[p], b)
                THEN /\ Len(new) = Len(old)
                     /\ \A j \in 1..Len(old) :
                           IF j = FirstOf(bdata[p], b)
                           THEN /\ new[j].id = b
                                /\ new[j].arches = old[j].arches \o <<ArchOf(a)>>
                           ELSE new[j] = old[j]
                ELSE /\ Len(new) = Len(old) + 1
                     /\ new[1] = [id |-> b, arches |-> <<ArchOf(a)>>]
                     /\ \A j \in 1..Len(old) : new[j + 1] = old[j]]_vars

\* A has put b2 in front of b1 in memory, and builds.json still holds b1 only
C37_Witness ==
    /\ bpc["A"] = "open" /\ bcall["A"] = "insert_build" /\ berr["A"] = "none"
    /\ Len(bdata["A"].builds) = 2
    /\ bdata["A"].builds[1].id = "b2"
    /\ BuildsPath \in DOMAIN files
    /\ files[BuildsPath].pending = "none"
    /\ Len(files[BuildsPath].data.builds) = 1


(***************************************************************************)
(* Algebra of merge_dicts (SpecDicts)                                      *)
(***************************************************************************)
\* C38: the empty object is a left and a right identity of merge_dicts,
\* merging an object with itself gives the object back, and the keys of
\* merge_dicts(x, y) are the keys of merge_dicts(y, x).
C38_MergeAlgebra ==
    Applied =>
        /\ py = Empty => pres.doc = px
        /\ px = Empty => pres.doc = py
        /\ px = py => pres.doc = px
        /\ DOMAIN pres.doc = DOMAIN merge_dicts(py, px)

\* an object with a repeated list item and a nested object was merged with
\* itself
C38_Witness ==
    /\ Applied
    /\ px = py
    /\ "a" \in DOMAIN px /\ px["a"].t = "dict" /\ "k" \in DOMAIN px["a"].v
    /\ px["a"].v["k"] = L(<<S("b"), S("b"), S("a")>>)
    /\ "b" \in DOMAIN px


(***************************************************************************)
(* _Build: the platform token .<platform>.building of a build directory    *)
(***************************************************************************)
\* set_token up to the test: if os.path.exists(tf): raise Exception(...).
\* __init__ has built the Meta object before it calls set_token.
TokenCheck(p) ==
    /\ tpc[p] = "none"
    /\ pc[p] = "idle"
    /\ tpc' = [tpc EXCEPT ![p] = IF token THEN "failed" ELSE "create"]
    /\ UNCHANGED <<cvars, purevars, bvars, svars, crashed, expired, token, ttok>>

\* with open(tf, 'w') as f: f.write(...); setattr(self, "_token_file", tf).
\* open(tf, 'w') creates the file or truncates the one that is there.
TokenCreate(p) ==
    /\ tpc[p] = "create"
    /\ token' = TRUE
    /\ ttok' = [ttok EXCEPT ![p] = TRUE]
    /\ tpc' = [tpc EXCEPT ![p] = "held"]
    /\ UNCHANGED <<cvars, purevars, bvars, svars, crashed, expired>>

\* __del__ -> unset_token: tf = getattr(self, "_token_file", None);
\* if tf: os.unlink(tf). The instance is gone afterwards.
UnsetToken(p) ==
    /\ tpc[p] \in {"held", "failed"}
    /\ pc[p] \in {"idle", "failed"}
    /\ token' = IF ttok[p] THEN FALSE ELSE token
    /\ ttok' = [ttok EXCEPT ![p] = FALSE]
    /\ tpc' = [tpc EXCEPT ![p] = "done"]
    /\ UNCHANGED <<cvars, purevars, bvars, svars, crashed, expired>>

\* two processes build the same platform of one build: each opens the
\* metadata, claims the token, writes the metadata while it has the token,
\* and drops the instance
NextToken ==
    \E p \in Procs :
        \/ Open(p)
        \/ TokenCheck(p)
        \/ TokenCreate(p)
        \/ /\ tpc[p] = "held"
           /\ \/ WriteBegin(p, "none", FALSE)
              \/ WriteLock(p)
              \/ WriteRename(p)
              \/ WriteUnlock(p)
              \/ WriteReturn(p)
              \/ WriteRead(p)
        \/ UnsetToken(p)

\* one build directory without a token file, and no instance yet
InitToken == InitWith(BaseDoc, {0}) /\ PureIdle

SpecToken == InitToken /\ [][NextToken]_vars

\* the instances that have claimed the token and not yet dropped it
Holders == {p \in Procs : tpc[p] = "held" /\ ttok[p]}

\* C39: at any time at most one _Build instance holds the token of the
\* platform in a build directory, and whenever an instance holds it the
\* token file is there.
C39_TokenExclusive ==
    /\ Cardinality(Holders) <= 1
    /\ Holders # {} => token

\* a set_token() that finds the token file raises and leaves the file and
\* every instance's _token_file alone; an instance whose set_token() raised
\* removes nothing when it is dropped
C39_FailedIsHarmless ==
    [][\A p \in Procs :
          /\ (TokenCheck(p) /\ token) =>
                tpc'[p] = "failed" /\ token' = token /\ ttok' = ttok
          /\ (UnsetToken(p) /\ tpc[p] = "failed") => token' = token]_vars

====
